---- MODULE Spec2Model ----
(***************************************************************************)
(* A model of google-auth-2fa-exporter: the URI resolver and payload       *)
(* decoder (decoder.py) and the QR image extraction pipeline               *)
(* (extractor.py).                                                         *)
(*                                                                         *)
(* Text is a sequence of code points, bytes are sequences of 0..255.       *)
(* Every library result is a record [ok, val, err]: ok = FALSE stands for  *)
(* a raised exception whose class is err.                                  *)
(***************************************************************************)
EXTENDS Integers, Sequences, FiniteSets, TLC

\* ------------------------------------------------------------------------
\* Text
\* ------------------------------------------------------------------------

\* The printable ASCII characters, code 32 (space) to 126 (~), in code order
\* (code 96, the grave accent, is spelled out).
Ascii ==
  << " ", "!", "\"", "#", "$", "%", "&", "'", "(", ")", "*", "+", ",", "-", ".", "/",
     "0", "1", "2", "3", "4", "5", "6", "7", "8", "9", ":", ";", "<", "=", ">", "?",
     "@", "A", "B", "C", "D", "E", "F", "G", "H", "I", "J", "K", "L", "M", "N", "O",
     "P", "Q", "R", "S", "T", "U", "V", "W", "X", "Y", "Z", "[", "\\", "]", "^", "_",
     "GRAVE", "a", "b", "c", "d", "e", "f", "g", "h", "i", "j", "k", "l", "m", "n", "o",
     "p", "q", "r", "s", "t", "u", "v", "w", "x", "y", "z", "{", "|", "}", "~" >>

\* The code point of every printable character.
CodePoint ==
  [c \in {Ascii[i] : i \in 1..Len(Ascii)} |->
     31 + (CHOOSE i \in 1..Len(Ascii) : Ascii[i] = c)]

\* ord()
Ord(c) == CodePoint[c]

\* The text (sequence of code points) spelled by a sequence of characters.
Str(cs) == [i \in 1..Len(cs) |-> Ord(cs[i])]

Ok(v) == [ok |-> TRUE, val |-> v, err |-> ""]
Raise(e) == [ok |-> FALSE, val |-> <<>>, err |-> e]

\* str.startswith
StartsWith(s, p) == Len(s) >= Len(p) /\ SubSeq(s, 1, Len(p)) = p

\* The first index >= i of s holding a code point of the set cs, or Len(s)+1.
FindFrom(s, cs, i) ==
  LET hits == {k \in i..Len(s) : s[k] \in cs}
  IN  IF hits = {} THEN Len(s) + 1
      ELSE CHOOSE k \in hits : \A j \in hits : k <= j

\* The last index of s holding a code point of the set cs, or 0.
FindLast(s, cs) ==
  LET hits == {k \in 1..Len(s) : s[k] \in cs}
  IN  IF hits = {} THEN 0
      ELSE CHOOSE k \in hits : \A j \in hits : k >= j

\* str.split(sep) for a one-character separator: the pieces between them.
RECURSIVE Split(_, _)
Split(s, sep) ==
  LET k == FindFrom(s, {sep}, 1)
  IN  IF k > Len(s) THEN <<s>>
      ELSE <<SubSeq(s, 1, k - 1)>> \o Split(SubSeq(s, k + 1, Len(s)), sep)

\* Python's str.strip() whitespace, as far as ASCII goes: tab to carriage
\* return (9..13), the separators 28..31 and the space.
Whitespace == (9..13) \cup (28..32)

\* str.rstrip(chars): s up to its last code point outside cs.
RStrip(s, cs) ==
  LET keep == {k \in 1..Len(s) : s[k] \notin cs}
  IN  IF s = <<>> \/ s[Len(s)] \notin cs THEN s
      ELSE IF keep = {} THEN <<>>
      ELSE SubSeq(s, 1, CHOOSE k \in keep : \A j \in (k + 1)..Len(s) : s[j] \in cs)

\* str.lstrip(chars): s from its first code point outside cs.
LStrip(s, cs) ==
  LET keep == {k \in 1..Len(s) : s[k] \notin cs}
  IN  IF s = <<>> \/ s[1] \notin cs THEN s
      ELSE IF keep = {} THEN <<>>
      ELSE SubSeq(s, CHOOSE k \in keep : \A j \in keep : k <= j, Len(s))

\* str.strip()
Strip(s) == LStrip(RStrip(s, Whitespace), Whitespace)

Min(a, b) == IF a <= b THEN a ELSE b

\* ------------------------------------------------------------------------
\* base64 / base32 (the standard library calls of decoder.py)
\* ------------------------------------------------------------------------

\* Bit k (1 is the most significant bit of the first byte) of a byte
\* string; the bits past its end read 0.
BitAt(bs, k) ==
  IF k > 8 * Len(bs) THEN 0
  ELSE (bs[((k - 1) \div 8) + 1] \div (2 ^ (7 - ((k - 1) % 8)))) % 2

\* The number spelled by the n bits of bs that start at bit i.
RECURSIVE BitsValue(_, _, _)
BitsValue(bs, i, n) ==
  IF n = 0 THEN 0
  ELSE 2 * BitsValue(bs, i, n - 1) + BitAt(bs, i + n - 1)

\* The groups of w bits of a byte string, the last one zero-filled.
BitGroups(bs, w) ==
  LET n == (8 * Len(bs) + w - 1) \div w
  IN  [g \in 1..n |-> BitsValue(bs, (g - 1) * w + 1, w)]

\* The padding that fills a text to a multiple of q characters.
PadTo(n, q) == [i \in 1..((q - (n % q)) % q) |-> Ord("=")]

\* The base64 alphabet: A-Z, a-z, 0-9, +, /.
B64Char(v) ==
  IF v < 26 THEN Ord("A") + v
  ELSE IF v < 52 THEN Ord("a") + (v - 26)
  ELSE IF v < 62 THEN Ord("0") + (v - 52)
  ELSE IF v = 62 THEN Ord("+") ELSE Ord("/")

\* The value of a base64 character, 64 for any other character
\* (binascii's table_a2b_base64).
B64Value(c) ==
  IF c \in Ord("A")..Ord("Z") THEN c - Ord("A")
  ELSE IF c \in Ord("a")..Ord("z") THEN c - Ord("a") + 26
  ELSE IF c \in Ord("0")..Ord("9") THEN c - Ord("0") + 52
  ELSE IF c = Ord("+") THEN 62
  ELSE IF c = Ord("/") THEN 63
  ELSE 64

\* base64.b64encode
b64encode(bs) ==
  LET g == BitGroups(bs, 6)
  IN  [i \in 1..Len(g) |-> B64Char(g[i])] \o PadTo(Len(g), 4)

\* The base32 alphabet: A-Z, 2-7.
B32Char(v) == IF v < 26 THEN Ord("A") + v ELSE Ord("2") + (v - 26)

\* base64.b32encode
b32encode(bs) ==
  LET g == BitGroups(bs, 5)
  IN  [i \in 1..Len(g) |-> B32Char(g[i])] \o PadTo(Len(g), 8)

\* binascii.a2b_base64 in its default, non-strict mode. The scan keeps the
\* alphabet characters and skips every other one; it ends at the first pad
\* that completes a quad (quad_pos + pads >= 4, the pads counted since the
\* last data character and only once the quad holds two characters), or
\* else at the end of the text, where an open quad is an error. Every two
\* characters kept beyond a quad's first yield one byte.
a2b_base64(s) ==
  LET IsData(j) == B64Value(s[j]) < 64
      IsPad(j) == s[j] = Ord("=")
      QuadPos(i) == Cardinality({j \in 1..(i - 1) : IsData(j)}) % 4
      LastData(i) ==
        LET d == {j \in 1..(i - 1) : IsData(j)}
        IN  IF d = {} THEN 0 ELSE CHOOSE j \in d : \A k \in d : j >= k
      Pads(i) == Cardinality({j \in (LastData(i) + 1)..i : IsPad(j)})
      Ends(i) == IsPad(i) /\ QuadPos(i) >= 2 /\ QuadPos(i) + Pads(i) >= 4
      ends == {i \in 1..Len(s) : Ends(i)}
      stop == IF ends = {} THEN Len(s) + 1
              ELSE CHOOSE i \in ends : \A k \in ends : i <= k
      kept == SelectSeq(SubSeq(s, 1, stop - 1), LAMBDA c : B64Value(c) < 64)
      v == [j \in 1..Len(kept) |-> B64Value(kept[j])]
      Byte(k) ==
        LET q == 4 * ((k - 1) \div 3)
            r == (k - 1) % 3
        IN  IF r = 0 THEN v[q + 1] * 4 + (v[q + 2] \div 16)
            ELSE IF r = 1 THEN (v[q + 2] % 16) * 16 + (v[q + 3] \div 4)
            ELSE (v[q + 3] % 4) * 64 + v[q + 4]
  IN  IF stop > Len(s) /\ Len(kept) % 4 # 0 THEN Raise("binascii.Error")
      ELSE Ok([k \in 1..((6 * Len(kept)) \div 8) |-> Byte(k)])

\* base64.b64decode(s) with validate left at its default False: a str
\* argument must be ASCII, then binascii.a2b_base64 decodes it.
b64decode(s) ==
  IF \E i \in 1..Len(s) : s[i] > 127 THEN Raise("ValueError")
  ELSE a2b_base64(s)

\* ------------------------------------------------------------------------
\* The migration payload message (google_auth_pb2) and its wire format
\* ------------------------------------------------------------------------

\* The wire codes of the Algorithm, DigitCount and OtpType enums.
ALGORITHM_UNSPECIFIED == 0
SHA1 == 1
SHA256 == 2
SHA512 == 3
MD5 == 4
DIGIT_COUNT_UNSPECIFIED == 0
SIX == 1
EIGHT == 2
SEVEN == 3
OTP_TYPE_UNSPECIFIED == 0
HOTP == 1
TOTP == 2

\* A freshly constructed OtpParameters message: every field at its default.
EmptyOtpParameters ==
  [secret |-> <<>>, name |-> <<>>, issuer |-> <<>>,
   algorithm |-> 0, digits |-> 0, type |-> 0, counter |-> 0]

\* The largest value the model keeps of the high part of a varint; the low
\* seven bits of every varint stay exact.
VarintCap == 1048576

\* A base-128 varint at b[i]: at most ten bytes, the last one below 128.
RECURSIVE ReadVarint(_, _, _)
ReadVarint(b, i, n) ==
  IF i > Len(b) \/ n >= 10 THEN [ok |-> FALSE, val |-> 0, next |-> i]
  ELSE IF b[i] < 128 THEN [ok |-> TRUE, val |-> b[i], next |-> i + 1]
  ELSE LET r == ReadVarint(b, i + 1, n + 1)
       IN  IF ~r.ok THEN r
           ELSE [ok |-> TRUE,
                 val |-> (b[i] - 128) + 128 * Min(r.val, VarintCap),
                 next |-> r.next]

RECURSIVE WriteVarint(_)
WriteVarint(v) ==
  IF v < 128 THEN <<v>> ELSE <<128 + (v % 128)>> \o WriteVarint(v \div 128)

\* UTF-8 encoding of a text.
RECURSIVE Utf8Encode(_)
Utf8Encode(t) ==
  IF t = <<>> THEN <<>>
  ELSE LET c == Head(t)
       IN  (IF c < 128 THEN <<c>>
            ELSE IF c < 2048 THEN <<192 + (c \div 64), 128 + (c % 64)>>
            ELSE <<224 + (c \div 4096), 128 + ((c \div 64) % 64), 128 + (c % 64)>>)
           \o Utf8Encode(Tail(t))

\* UTF-8 decoding of the bytes of a string field; ill-formed bytes fail.
RECURSIVE Utf8Decode(_, _, _)
Utf8Decode(b, i, out) ==
  LET Cont(k) == k <= Len(b) /\ b[k] \in 128..191
  IN  IF i > Len(b) THEN Ok(out)
      ELSE IF b[i] < 128 THEN Utf8Decode(b, i + 1, Append(out, b[i]))
      ELSE IF b[i] \in 194..223 /\ Cont(i + 1)
      THEN Utf8Decode(b, i + 2, Append(out, (b[i] - 192) * 64 + (b[i + 1] - 128)))
      ELSE IF /\ b[i] \in 224..239 /\ Cont(i + 1) /\ Cont(i + 2)
              /\ (b[i] = 224 => b[i + 1] >= 160)
              /\ (b[i] = 237 => b[i + 1] <= 159)
      THEN Utf8Decode(b, i + 3,
             Append(out, (b[i] - 224) * 4096 + (b[i + 1] - 128) * 64 + (b[i + 2] - 128)))
      ELSE IF /\ b[i] \in 240..244 /\ Cont(i + 1) /\ Cont(i + 2) /\ Cont(i + 3)
              /\ (b[i] = 240 => b[i + 1] >= 144)
              /\ (b[i] = 244 => b[i + 1] <= 143)
      THEN Utf8Decode(b, i + 4,
             Append(out, (b[i] - 240) * 262144 + (b[i + 1] - 128) * 4096
                         + (b[i + 2] - 128) * 64 + (b[i + 3] - 128)))
      ELSE Raise("DecodeError")

\* The index after the field of wire type wt whose value begins at b[j], or
\* 0 when the value is truncated or the wire type is not one of varint (0),
\* 64-bit (1), length-delimited (2) and 32-bit (5).
SkipField(b, j, wt) ==
  IF wt = 0 THEN LET v == ReadVarint(b, j, 0) IN IF v.ok THEN v.next ELSE 0
  ELSE IF wt = 1 THEN IF j + 7 <= Len(b) THEN j + 8 ELSE 0
  ELSE IF wt = 5 THEN IF j + 3 <= Len(b) THEN j + 4 ELSE 0
  ELSE IF wt = 2
  THEN LET l == ReadVarint(b, j, 0)
       IN  IF l.ok /\ l.next + l.val - 1 <= Len(b) THEN l.next + l.val ELSE 0
  ELSE 0

\* The fields of one OtpParameters record merged into msg: secret = 1
\* (bytes), name = 2, issuer = 3 (strings), algorithm = 4, digits = 5,
\* type = 6 (enums), counter = 7 (integer). A field that is unknown, or
\* known with another wire type, is skipped.
RECURSIVE ParseOtpParameters(_, _, _)
ParseOtpParameters(b, i, msg) ==
  IF i > Len(b) THEN Ok(msg)
  ELSE
    LET t == ReadVarint(b, i, 0)
        f == t.val \div 8
        wt == t.val % 8
        k == SkipField(b, t.next, wt)
    IN  IF ~t.ok \/ f = 0 \/ k = 0 THEN Raise("DecodeError")
        ELSE IF wt = 2 /\ f \in 1..3
        THEN LET l == ReadVarint(b, t.next, 0)
                 body == SubSeq(b, l.next, k - 1)
                 text == Utf8Decode(body, 1, <<>>)
             IN  IF f = 1
                 THEN ParseOtpParameters(b, k, [msg EXCEPT !.secret = body])
                 ELSE IF ~text.ok THEN Raise("DecodeError")
                 ELSE IF f = 2
                 THEN ParseOtpParameters(b, k, [msg EXCEPT !.name = text.val])
                 ELSE ParseOtpParameters(b, k, [msg EXCEPT !.issuer = text.val])
        ELSE IF wt = 0 /\ f \in 4..7
        THEN LET v == ReadVarint(b, t.next, 0).val
             IN  IF f = 4
                 THEN ParseOtpParameters(b, k, [msg EXCEPT !.algorithm = v])
                 ELSE IF f = 5
                 THEN ParseOtpParameters(b, k, [msg EXCEPT !.digits = v])
                 ELSE IF f = 6
                 THEN ParseOtpParameters(b, k, [msg EXCEPT !.type = v])
                 ELSE ParseOtpParameters(b, k, [msg EXCEPT !.counter = v])
        ELSE ParseOtpParameters(b, k, msg)

\* MigrationPayload.ParseFromString: the repeated field otp_parameters = 1
\* collects one record per occurrence, in wire order; the other fields of
\* the payload (version, batch size, index and id) are read past.
RECURSIVE ParseFromString(_, _, _)

\* The record just read joins the list and the parse goes on at b[k]; a
\* record that does not parse ends the parse.
AddRecord(rec, b, k, otp_parameters) ==
  IF ~rec.ok THEN rec ELSE ParseFromString(b, k, Append(otp_parameters, rec.val))

ParseFromString(b, i, otp_parameters) ==
  IF i > Len(b) THEN Ok(otp_parameters)
  ELSE
    LET t == ReadVarint(b, i, 0)
        f == t.val \div 8
        wt == t.val % 8
        k == SkipField(b, t.next, wt)
    IN  IF ~t.ok \/ f = 0 \/ k = 0 THEN Raise("DecodeError")
        ELSE IF wt = 2 /\ f = 1
        THEN LET l == ReadVarint(b, t.next, 0)
             IN  AddRecord(ParseOtpParameters(SubSeq(b, l.next, k - 1), 1,
                                              EmptyOtpParameters),
                           b, k, otp_parameters)
        ELSE ParseFromString(b, k, otp_parameters)

\* One field on the wire: the tag, then the value; a field at its default
\* value is not written.
LenField(f, bytes) ==
  IF bytes = <<>> THEN <<>>
  ELSE WriteVarint(f * 8 + 2) \o WriteVarint(Len(bytes)) \o bytes

IntField(f, v) == IF v = 0 THEN <<>> ELSE WriteVarint(f * 8) \o WriteVarint(v)

SerializeOtpParameters(otp) ==
  LenField(1, otp.secret) \o LenField(2, Utf8Encode(otp.name))
  \o LenField(3, Utf8Encode(otp.issuer)) \o IntField(4, otp.algorithm)
  \o IntField(5, otp.digits) \o IntField(6, otp.type) \o IntField(7, otp.counter)

\* MigrationPayload.SerializeToString for a payload of the given records.
RECURSIVE SerializeToString(_)
SerializeToString(otp_parameters) ==
  IF otp_parameters = <<>> THEN <<>>
  ELSE LET body == SerializeOtpParameters(Head(otp_parameters))
       IN  WriteVarint(10) \o WriteVarint(Len(body)) \o body
           \o SerializeToString(Tail(otp_parameters))

\* The tests' payload builder: the records serialized and base64-encoded.
_make_payload(otp_params) == b64encode(SerializeToString(otp_params))

\* ------------------------------------------------------------------------
\* urllib.parse, as decoder.py uses it
\* ------------------------------------------------------------------------

\* The value of a hexadecimal digit, 16 for any other character.
HexVal(c) ==
  IF c \in Ord("0")..Ord("9") THEN c - Ord("0")
  ELSE IF c \in Ord("A")..Ord("F") THEN c - Ord("A") + 10
  ELSE IF c \in Ord("a")..Ord("f") THEN c - Ord("a") + 10
  ELSE 16

\* The pieces that follow a percent sign: two hexadecimal digits give the
\* escaped character (a lone byte above 127 decodes to U+FFFD), anything
\* else leaves the percent sign in place.
RECURSIVE UnquotePieces(_, _)
UnquotePieces(ps, i) ==
  IF i > Len(ps) THEN <<>>
  ELSE
    LET piece == ps[i]
        byte == 16 * HexVal(piece[1]) + HexVal(piece[2])
    IN  (IF Len(piece) >= 2 /\ HexVal(piece[1]) < 16 /\ HexVal(piece[2]) < 16
         THEN <<IF byte < 128 THEN byte ELSE 65533>> \o SubSeq(piece, 3, Len(piece))
         ELSE <<Ord("%")>> \o piece)
        \o UnquotePieces(ps, i + 1)

\* urllib.parse.unquote
unquote(string) ==
  LET ps == Split(string, Ord("%"))
  IN  ps[1] \o UnquotePieces(ps, 2)

\* str.replace('+', ' ')
PlusToSpace(t) == [i \in 1..Len(t) |-> IF t[i] = Ord("+") THEN Ord(" ") ELSE t[i]]

\* urllib.parse.parse_qsl with its defaults: the fields are split at '&',
\* each at its first '='; a field with no '=' or with an empty value is
\* dropped; in name and value '+' becomes a space, then escapes are decoded.
RECURSIVE parse_qsl(_, _)
parse_qsl(fields, i) ==
  IF i > Len(fields) THEN <<>>
  ELSE
    LET name_value == fields[i]
        eq == FindFrom(name_value, {Ord("=")}, 1)
        name == SubSeq(name_value, 1, eq - 1)
        value == SubSeq(name_value, eq + 1, Len(name_value))
    IN  (IF eq > Len(name_value) \/ value = <<>> THEN <<>>
         ELSE << <<unquote(PlusToSpace(name)), unquote(PlusToSpace(value))>> >>)
        \o parse_qsl(fields, i + 1)

\* parse_qs(qs).get(key): the values of the fields named key, in order;
\* the empty sequence stands for None.
parse_qs_get(qs, key) ==
  LET pairs == IF qs = <<>> THEN <<>> ELSE parse_qsl(Split(qs, Ord("&")), 1)
      named == SelectSeq(pairs, LAMBDA nv : nv[1] = key)
  IN  [i \in 1..Len(named) |-> named[i][2]]

\* urlparse(uri).query for a URI that starts with "<scheme>://": tabs and
\* newlines are removed, the network location runs up to the first of
\* / ? #, the fragment starts at the first '#' after it and the query is
\* what lies between the first '?' and the fragment. An unmatched bracket
\* in the network location is a ValueError (the model's URIs hold no
\* bracketed host).
urlparse_query(uri, prefix) ==
  LET url == SelectSeq(uri, LAMBDA c : c \notin {9, 10, 13})
      start == Len(prefix) + 1
      stop == FindFrom(url, {Ord("/"), Ord("?"), Ord("#")}, start)
      netloc == SubSeq(url, start, stop - 1)
      rest == SubSeq(url, stop, Len(url))
      nofrag == SubSeq(rest, 1, FindFrom(rest, {Ord("#")}, 1) - 1)
      q == FindFrom(nofrag, {Ord("?")}, 1)
  IN  IF \E k \in 1..Len(netloc) : netloc[k] \in {Ord("["), Ord("]")}
      THEN Raise("ValueError")
      ELSE Ok(SubSeq(nofrag, q + 1, Len(nofrag)))

\* ------------------------------------------------------------------------
\* decoder.py
\* ------------------------------------------------------------------------

ALGORITHM_MAP ==
  (ALGORITHM_UNSPECIFIED :> Str(<<"S", "H", "A", "1">>))
  @@ (SHA1 :> Str(<<"S", "H", "A", "1">>))
  @@ (SHA256 :> Str(<<"S", "H", "A", "2", "5", "6">>))
  @@ (SHA512 :> Str(<<"S", "H", "A", "5", "1", "2">>))
  @@ (MD5 :> Str(<<"M", "D", "5">>))

\* DIGIT_COUNT_MAP with the values of EIGHT and SEVEN exchanged.
DIGIT_COUNT_MAP_Swapped ==
  (DIGIT_COUNT_UNSPECIFIED :> 6) @@ (SIX :> 6) @@ (EIGHT :> 7) @@ (SEVEN :> 8)

DIGIT_COUNT_MAP ==
  (DIGIT_COUNT_UNSPECIFIED :> 6) @@ (SIX :> 6) @@ (EIGHT :> 8) @@ (SEVEN :> 7)

OTP_TYPE_MAP ==
  (OTP_TYPE_UNSPECIFIED :> Str(<<"t", "o", "t", "p">>))
  @@ (HOTP :> Str(<<"h", "o", "t", "p">>))
  @@ (TOTP :> Str(<<"t", "o", "t", "p">>))

\* dict.get(key, default)
Get(map, key, default) == IF key \in DOMAIN map THEN map[key] ELSE default

\* The OtpAccount built from one record of the payload.
OtpAccount(otp) ==
  [name |-> otp.name,
   issuer |-> otp.issuer,
   totp_secret |-> RStrip(b32encode(otp.secret), {Ord("=")}),
   algorithm |-> Get(ALGORITHM_MAP, otp.algorithm, Str(<<"S", "H", "A", "1">>)),
   digits |-> Get(DIGIT_COUNT_MAP, otp.digits, 6),
   otp_type |-> Get(OTP_TYPE_MAP, otp.type, Str(<<"t", "o", "t", "p">>)),
   counter |-> otp.counter]

\* The accounts of the records whose (issuer, name) no earlier record has.
AccountsOf_Deduplicated(otp_parameters) ==
  LET first == SelectSeq([i \in 1..Len(otp_parameters) |-> i],
                 LAMBDA i : \A j \in 1..(i - 1) :
                   <<otp_parameters[j].issuer, otp_parameters[j].name>>
                   # <<otp_parameters[i].issuer, otp_parameters[i].name>>)
  IN  [k \in 1..Len(first) |-> OtpAccount(otp_parameters[first[k]])]

\* The accounts appended by the loop over payload.otp_parameters.
AccountsOf(otp_parameters) ==
  [i \in 1..Len(otp_parameters) |-> OtpAccount(otp_parameters[i])]

MigrationScheme ==
  Str(<<"o", "t", "p", "a", "u", "t", "h", "-",
        "m", "i", "g", "r", "a", "t", "i", "o", "n", ":", "/", "/">>)

\* extract_base64_payload that answers a missing data parameter with an
\* empty payload.
extract_base64_payload_NoRaise(uri) ==
  LET stripped == Strip(uri)
      query == urlparse_query(stripped, MigrationScheme)
      data_list == parse_qs_get(query.val, Str(<<"d", "a", "t", "a">>))
  IN  IF StartsWith(stripped, MigrationScheme)
      THEN IF ~query.ok THEN query
           ELSE IF data_list = <<>> THEN Ok(<<>>)
           ELSE Ok(unquote(data_list[1]))
      ELSE Ok(stripped)

extract_base64_payload(uri) ==
  LET stripped == Strip(uri)
      query == urlparse_query(stripped, MigrationScheme)
      data_list == parse_qs_get(query.val, Str(<<"d", "a", "t", "a">>))
  IN  IF StartsWith(stripped, MigrationScheme)
      THEN IF ~query.ok THEN query
           ELSE IF data_list = <<>> THEN Raise("ValueError")
           ELSE Ok(unquote(data_list[1]))
      ELSE Ok(stripped)

\* decode_migration_payload from the parsed payload on: an exception of
\* ParseFromString ends the call.
AccountsOfPayload(payload) ==
  IF ~payload.ok THEN payload ELSE Ok(AccountsOf(payload.val))

\* decode_migration_payload from the decoded bytes on: an exception of
\* b64decode ends the call.
ParseRaw(raw) ==
  IF ~raw.ok THEN raw ELSE AccountsOfPayload(ParseFromString(raw.val, 1, <<>>))

decode_migration_payload(base64_data) == ParseRaw(b64decode(base64_data))

\* decode_uri from the extracted payload on: an exception of
\* extract_base64_payload ends the call.
DecodePayload(b64) == IF ~b64.ok THEN b64 ELSE decode_migration_payload(b64.val)

decode_uri(uri) == DecodePayload(extract_base64_payload(uri))

\* ------------------------------------------------------------------------
\* extractor.py
\* ------------------------------------------------------------------------

\* The file system is a directory, DirPath, with its entries: fs maps the
\* name of an entry to [kind, image, barcodes]. kind is "file" or "dir";
\* image tells whether Image.open accepts the file; barcodes are the codes
\* drawn in the picture, each [valid, text, recs, fails] with valid = FALSE for a
\* code the reader cannot decode, recs the records a migration URI was
\* built from and fails the exception decode_uri raises on the text ("" when
\* it raises none). A path is the name of an entry, DirPath, or a path that
\* does not exist.
DirPath == Str(<<"q", "r">>)

is_dir(fs, path) == path = DirPath \/ (path \in DOMAIN fs /\ fs[path].kind = "dir")

is_file(fs, path) == path \in DOMAIN fs /\ fs[path].kind = "file"

\* str.lower
lower(t) ==
  [i \in 1..Len(t) |-> IF t[i] \in Ord("A")..Ord("Z") THEN t[i] + 32 ELSE t[i]]

\* PurePath.suffix: the name from its last dot on, unless that dot is the
\* first or the last character of the name.
suffix(name) ==
  LET i == FindLast(name, {Ord(".")})
  IN  IF 1 < i /\ i < Len(name) THEN SubSeq(name, i, Len(name)) ELSE <<>>

IMAGE_EXTENSIONS ==
  { Str(<<".", "p", "n", "g">>), Str(<<".", "j", "p", "g">>),
    Str(<<".", "j", "p", "e", "g">>), Str(<<".", "b", "m", "p">>),
    Str(<<".", "g", "i", "f">>), Str(<<".", "w", "e", "b", "p">>),
    Str(<<".", "t", "i", "f", "f">>) }

\* Text order by code point, the order of paths within one directory.
TextLess(a, b) ==
  LET n == Min(Len(a), Len(b))
      diff == {k \in 1..n : a[k] # b[k]}
      k == CHOOSE k \in diff : \A j \in diff : k <= j
  IN  IF diff = {} THEN Len(a) < Len(b) ELSE a[k] < b[k]

\* sorted(): each item is put before the first sorted item it is less than.
RECURSIVE sorted(_)
sorted(items) ==
  IF items = <<>> THEN <<>>
  ELSE LET rest == sorted(Tail(items))
           x == Head(items)
           smaller == SelectSeq(rest, LAMBDA y : ~TextLess(x, y))
           larger == SelectSeq(rest, LAMBDA y : TextLess(x, y))
       IN  smaller \o <<x>> \o larger

OtpSchemes ==
  { MigrationScheme, Str(<<"o", "t", "p", "a", "u", "t", "h", ":", "/", "/">>) }

\* zxingcpp.read_barcodes: the texts of the codes it can decode, in reading
\* order.
read_barcodes(img) ==
  LET read == SelectSeq(img, LAMBDA code : code.valid)
  IN  [i \in 1..Len(read) |-> read[i].text]

\* scan_image that returns the text of every code read.
scan_image_Unfiltered(fs, path) ==
  IF ~fs[path].image THEN Raise("UnidentifiedImageError")
  ELSE Ok(read_barcodes(fs[path].barcodes))

scan_image(fs, path) ==
  IF ~fs[path].image THEN Raise("UnidentifiedImageError")
  ELSE Ok(SelectSeq(read_barcodes(fs[path].barcodes),
                    LAMBDA text : \E scheme \in OtpSchemes : StartsWith(text, scheme)))

\* The inner loop of scan_directory: the URIs not seen before are added.
RECURSIVE AddUris(_, _, _)
AddUris(st, found, i) ==
  IF i > Len(found) THEN st
  ELSE IF found[i] \notin st.seen
  THEN AddUris([uris |-> Append(st.uris, found[i]), seen |-> st.seen \cup {found[i]}],
               found, i + 1)
  ELSE AddUris(st, found, i + 1)

\* The loop of scan_directory over the sorted paths.
RECURSIVE ScanPaths(_, _, _, _)

\* The URIs found in paths[i] are added and the loop goes on; an exception
\* of scan_image ends the scan.
AddFound(found, fs, paths, i, st) ==
  IF ~found.ok THEN found ELSE ScanPaths(fs, paths, i + 1, AddUris(st, found.val, 1))

ScanPaths(fs, paths, i, st) ==
  IF i > Len(paths) THEN Ok(st.uris)
  ELSE IF lower(suffix(paths[i])) \in IMAGE_EXTENSIONS /\ is_file(fs, paths[i])
  THEN AddFound(scan_image(fs, paths[i]), fs, paths, i, st)
  ELSE ScanPaths(fs, paths, i + 1, st)

\* scan_directory that takes the paths in the order iterdir yields them.
scan_directory_Unsorted(fs, listing) ==
  ScanPaths(fs, listing, 1, [uris |-> <<>>, seen |-> {}])

\* listing is what directory.iterdir() yields, in the order it yields it.
scan_directory(fs, listing) ==
  ScanPaths(fs, sorted(listing), 1, [uris |-> <<>>, seen |-> {}])

\* AddAccounts that adds every account.
AddAccounts_NoDedup(st, decoded, i) ==
  [accounts |-> st.accounts \o SubSeq(decoded, i, Len(decoded)), seen |-> st.seen]

\* The inner loop of extract_accounts: an account whose (issuer, name) has
\* not been seen is added.
RECURSIVE AddAccounts(_, _, _)
AddAccounts(st, decoded, i) ==
  IF i > Len(decoded) THEN st
  ELSE LET key == <<decoded[i].issuer, decoded[i].name>>
       IN  IF key \notin st.seen
           THEN AddAccounts([accounts |-> Append(st.accounts, decoded[i]),
                             seen |-> st.seen \cup {key}], decoded, i + 1)
           ELSE AddAccounts(st, decoded, i + 1)

RECURSIVE DecodeUris(_, _, _)

\* The accounts decoded from uris[i] are added and the loop goes on; an
\* exception of decode_uri ends extract_accounts.
AddDecoded(decoded, uris, i, st) ==
  IF ~decoded.ok THEN decoded
  ELSE DecodeUris(uris, i + 1, AddAccounts(st, decoded.val, 1))

\* DecodeUris that passes over a URI decode_uri raises on.
RECURSIVE DecodeUris_SkipFailed(_, _, _)
DecodeUris_SkipFailed(uris, i, st) ==
  IF i > Len(uris) THEN Ok(st.accounts)
  ELSE LET decoded == decode_uri(uris[i])
       IN  IF ~decoded.ok THEN DecodeUris_SkipFailed(uris, i + 1, st)
           ELSE DecodeUris_SkipFailed(uris, i + 1, AddAccounts(st, decoded.val, 1))

\* The loop of extract_accounts over the URIs.
DecodeUris(uris, i, st) ==
  IF i > Len(uris) THEN Ok(st.accounts)
  ELSE AddDecoded(decode_uri(uris[i]), uris, i, st)

\* extract_accounts from the scanned URIs on: an exception of the scan ends
\* the call.
AccountsOfUris(uris) ==
  IF ~uris.ok THEN uris ELSE DecodeUris(uris.val, 1, [accounts |-> <<>>, seen |-> {}])

\* extract_accounts that takes a path that does not exist for an empty
\* directory.
extract_accounts_MissingIsEmpty(fs, path, listing) ==
  AccountsOfUris(IF is_dir(fs, path) THEN scan_directory(fs, listing)
                 ELSE IF is_file(fs, path) THEN scan_image(fs, path)
                 ELSE Ok(<<>>))

extract_accounts(fs, path, listing) ==
  AccountsOfUris(IF is_dir(fs, path) THEN scan_directory(fs, listing)
                 ELSE IF is_file(fs, path) THEN scan_image(fs, path)
                 ELSE Raise("FileNotFoundError"))

\* ------------------------------------------------------------------------
\* hashlib.sha1 and hmac, as pyotp uses them
\* ------------------------------------------------------------------------

\* A 32-bit word is the sequence of its 32 bits, the most significant
\* first; hi and lo are its two 16-bit halves. (Concatenating with the
\* empty sequence makes the function a sequence.)
Word(hi, lo) ==
  [k \in 1..32 |-> IF k <= 16 THEN (hi \div (2 ^ (16 - k))) % 2
                   ELSE (lo \div (2 ^ (32 - k))) % 2] \o <<>>

\* The number spelled by the 16 bits of w after bit off.
Half(w, off) ==
  w[off + 1] * 32768 + w[off + 2] * 16384 + w[off + 3] * 8192 + w[off + 4] * 4096
  + w[off + 5] * 2048 + w[off + 6] * 1024 + w[off + 7] * 512 + w[off + 8] * 256
  + w[off + 9] * 128 + w[off + 10] * 64 + w[off + 11] * 32 + w[off + 12] * 16
  + w[off + 13] * 8 + w[off + 14] * 4 + w[off + 15] * 2 + w[off + 16]

RECURSIVE SumHalf(_, _)
SumHalf(ws, off) ==
  IF ws = <<>> THEN 0 ELSE Half(Head(ws), off) + SumHalf(Tail(ws), off)

\* The sum of the words modulo 2^32.
Add32(ws) ==
  LET lo == SumHalf(ws, 16)
  IN  Word((SumHalf(ws, 0) + (lo \div 65536)) % 65536, lo % 65536)

\* Rotation to the left by n bits.
Rotl(w, n) == [k \in 1..32 |-> w[((k - 1 + n) % 32) + 1]] \o <<>>

Xor4(a, b, c, d) == [k \in 1..32 |-> (a[k] + b[k] + c[k] + d[k]) % 2] \o <<>>

\* The function f(t; B, C, D) of round t (FIPS 180, SHA-1): choice, parity,
\* majority, parity.
F(t, b, c, d) ==
  [k \in 1..32 |->
     IF t < 20 THEN (IF b[k] = 1 THEN c[k] ELSE d[k])
     ELSE IF t \in 40..59 THEN (b[k] + c[k] + d[k]) \div 2
     ELSE (b[k] + c[k] + d[k]) % 2] \o <<>>

\* The constant K(t) of round t.
K(t) ==
  IF t < 20 THEN Word(23170, 31129)
  ELSE IF t < 40 THEN Word(28377, 60321)
  ELSE IF t < 60 THEN Word(36635, 48348)
  ELSE Word(51810, 49622)

\* The initial hash value.
H0 ==
  <<Word(26437, 8961), Word(61389, 43913), Word(39098, 56574),
    Word(4146, 21622), Word(50130, 57840)>>

\* The message followed by the bit 1, zero bits and its length in bits as a
\* 64-bit number, to a multiple of 64 bytes.
Sha1Pad(m) ==
  LET zeros == (119 - (Len(m) % 64)) % 64
      bits == 8 * Len(m)
  IN  m \o <<128>> \o [i \in 1..(zeros + 4) |-> 0]
      \o <<(bits \div 16777216) % 256, (bits \div 65536) % 256,
           (bits \div 256) % 256, bits % 256>>

\* Word i (from 1) of a byte string.
WordAt(bs, i) == [k \in 1..32 |-> BitAt(bs, 32 * (i - 1) + k)] \o <<>>

\* The message schedule grown from words lo to hi (both from 17 to 80):
\* each new word is the rotated exclusive-or of four earlier ones. (The
\* range is halved, the first half computed before the second, to keep the
\* evaluation shallow.)
RECURSIVE Schedule(_, _, _)
Schedule(w, lo, hi) ==
  IF lo = hi
  THEN Append(w, Rotl(Xor4(w[lo - 3], w[lo - 8], w[lo - 14], w[lo - 16]), 1))
  ELSE CHOOSE out \in {Schedule(first, ((lo + hi) \div 2) + 1, hi) :
                         first \in {Schedule(w, lo, (lo + hi) \div 2)}} : TRUE

\* Rounds lo to hi (from 0 to 79) on the working variables s = <<A..E>>.
RECURSIVE Rounds(_, _, _, _)
Rounds(s, w, lo, hi) ==
  IF lo = hi
  THEN <<Add32(<<Rotl(s[1], 5), F(lo, s[2], s[3], s[4]), s[5], K(lo), w[lo + 1]>>),
         s[1], Rotl(s[2], 30), s[3], s[4]>>
  ELSE CHOOSE out \in {Rounds(first, w, ((lo + hi) \div 2) + 1, hi) :
                         first \in {Rounds(s, w, lo, (lo + hi) \div 2)}} : TRUE

\* The hash value after 64-byte block n of the padded message.
RECURSIVE Sha1Blocks(_, _)
Sha1Blocks(padded, n) ==
  IF n = 0 THEN H0
  ELSE LET h == Sha1Blocks(padded, n - 1)
           block == SubSeq(padded, 64 * n - 63, 64 * n)
           w == Schedule([i \in 1..16 |-> WordAt(block, i)] \o <<>>, 17, 80)
           s == Rounds(h, w, 0, 79)
       IN  [i \in 1..5 |-> Add32(<<h[i], s[i]>>)] \o <<>>

\* hashlib.sha1(m).digest()
sha1(m) ==
  LET padded == Sha1Pad(m)
      h == Sha1Blocks(padded, Len(padded) \div 64)
  IN  [i \in 1..20 |->
         LET w == h[((i - 1) \div 4) + 1]
             o == 8 * ((i - 1) % 4)
         IN  w[o + 1] * 128 + w[o + 2] * 64 + w[o + 3] * 32 + w[o + 4] * 16
             + w[o + 5] * 8 + w[o + 6] * 4 + w[o + 7] * 2 + w[o + 8]] \o <<>>

\* The exclusive-or of a byte with a pad byte.
XorByte(x, y) ==
  LET X(k) == (x \div (2 ^ k)) % 2
      Y(k) == (y \div (2 ^ k)) % 2
  IN  ((X(7) + Y(7)) % 2) * 128 + ((X(6) + Y(6)) % 2) * 64 + ((X(5) + Y(5)) % 2) * 32
      + ((X(4) + Y(4)) % 2) * 16 + ((X(3) + Y(3)) % 2) * 8 + ((X(2) + Y(2)) % 2) * 4
      + ((X(1) + Y(1)) % 2) * 2 + ((X(0) + Y(0)) % 2)

\* hmac.new(key, msg, hashlib.sha1).digest(): a key longer than the
\* 64-byte block is hashed first, a shorter one is filled with zeros.
hmac_sha1(key, msg) ==
  LET k0 == IF Len(key) > 64 THEN sha1(key) ELSE key
      k == k0 \o [i \in 1..(64 - Len(k0)) |-> 0]
      ipad == [i \in 1..64 |-> XorByte(k[i], 54)] \o <<>>
      opad == [i \in 1..64 |-> XorByte(k[i], 92)] \o <<>>
  IN  sha1(opad \o sha1(ipad \o msg))

\* ------------------------------------------------------------------------
\* pyotp (2.9), as ui.py uses it
\* ------------------------------------------------------------------------

\* The value of a base32 character, 32 for any other character.
B32Rev(c) ==
  IF c \in Ord("A")..Ord("Z") THEN c - Ord("A")
  ELSE IF c \in Ord("2")..Ord("7") THEN c - Ord("2") + 26
  ELSE 32

\* str.upper
upper(t) ==
  [i \in 1..Len(t) |-> IF t[i] \in Ord("a")..Ord("z") THEN t[i] - 32 ELSE t[i]]

\* base64.b32decode(s, casefold=True): the length is a multiple of 8, the
\* characters before the trailing pads are of the alphabet, and 0, 1, 3, 4
\* or 6 pads end the text; every 8 bits of the 5-bit groups give a byte.
b32decode(s) ==
  LET t == RStrip(upper(s), {Ord("=")})
      padchars == Len(s) - Len(t)
      Bit(j) == (B32Rev(t[((j - 1) \div 5) + 1]) \div (2 ^ (4 - ((j - 1) % 5)))) % 2
  IN  IF \E i \in 1..Len(s) : s[i] > 127 THEN Raise("ValueError")
      ELSE IF \/ Len(s) % 8 # 0
              \/ \E i \in 1..Len(t) : B32Rev(t[i]) = 32
              \/ padchars \notin {0, 1, 3, 4, 6}
      THEN Raise("binascii.Error")
      ELSE Ok([k \in 1..((5 * Len(t)) \div 8) |->
                 Bit(8 * k - 7) * 128 + Bit(8 * k - 6) * 64 + Bit(8 * k - 5) * 32
                 + Bit(8 * k - 4) * 16 + Bit(8 * k - 3) * 8 + Bit(8 * k - 2) * 4
                 + Bit(8 * k - 1) * 2 + Bit(8 * k)])

\* OTP.byte_secret: the secret padded to a multiple of 8 and decoded.
byte_secret(secret) == b32decode(secret \o PadTo(Len(secret), 8))

\* OTP.int_to_bytestring: the moving factor as 8 bytes, big-endian (the
\* model's factors are below 2^31).
int_to_bytestring(i) ==
  [k \in 1..8 |-> IF k <= 4 THEN 0 ELSE (i \div (256 ^ (8 - k))) % 256]

\* n in decimal without the zeros that fill it to the width.
ZeroFilled_Unfilled(n, width) ==
  LET filled == [k \in 1..width |-> Ord("0") + ((n \div (10 ^ (width - k))) % 10)]
      first == FindFrom(filled, Ord("1")..Ord("9"), 1)
  IN  IF first > width THEN Str(<<"0">>) ELSE SubSeq(filled, first, width)

\* n in decimal, filled with zeros to the given width.
ZeroFilled(n, width) ==
  [k \in 1..width |-> Ord("0") + ((n \div (10 ^ (width - k))) % 10)]

\* The dynamic truncation of generate_otp: four bytes of the hash, at the
\* offset its last four bits name, less the top bit, reduced to the digits.
Truncate(hmac_hash, digits) ==
  LET offset == hmac_hash[Len(hmac_hash)] % 16
      code == (hmac_hash[offset + 1] % 128) * 16777216 + hmac_hash[offset + 2] * 65536
              + hmac_hash[offset + 3] * 256 + hmac_hash[offset + 4]
  IN  ZeroFilled(code % (10 ^ digits), digits)

\* The secrets of the reference vectors: the twenty bytes "1234...890" of
\* RFC 4226/6238, and the ten bytes that JBSWY3DPEHPK3PXP spells.
RfcKey == [k \in 1..20 |-> Ord("0") + (k % 10)] \o <<>>
HelloKey == Str(<<"H", "e", "l", "l", "o", "!">>) \o <<222, 173, 190, 239>>

\* The keys and moving factors of the model's accounts and clock.
KnownKeys == {RfcKey, HelloKey, <<>>}
KnownFactors == {0, 1, 2, 37037036}

\* hmac.new(key, msg, hashlib.sha1).digest() for the known keys and factors.
HmacSha1Table ==
  [q \in {<<key, int_to_bytestring(c)>> : key \in KnownKeys, c \in KnownFactors}
     |-> hmac_sha1(q[1], q[2])] @@ <<>>

\* ------------------------------------------------------------------------
\* Inputs of the decoder
\* ------------------------------------------------------------------------

\* The most records in one payload.
MaxRecords == 2
\* The largest enum wire code a record carries (4 is the last known code).
MaxCode == 5

Rec(secret, name, issuer, algorithm, digits, type, counter) ==
  [secret |-> secret, name |-> name, issuer |-> issuer, algorithm |-> algorithm,
   digits |-> digits, type |-> type, counter |-> counter]

\* Records that share (issuer, name) with different secrets, a record with
\* no issuer, and a record with no secret bytes.
BaseRecords ==
  { Rec(Str(<<"H", "e", "l", "l", "o">>), Str(<<"a">>), Str(<<"X">>), SHA1, SIX, TOTP, 0),
    Rec(<<15, 190>>, Str(<<"a">>), Str(<<"X">>), SHA1, SIX, TOTP, 0),
    Rec(<<255, 255>>, Str(<<"b">>), <<>>, SHA256, EIGHT, HOTP, 5),
    Rec(<<>>, Str(<<"a">>), Str(<<"Y">>), 0, 0, 0, 0) }

\* One record for every combination of enum wire codes.
CodeRecords ==
  { Rec(<<1, 2, 3>>, Str(<<"c">>), Str(<<"Z">>), a, d, t, 1) :
      a \in 0..MaxCode, d \in 0..MaxCode, t \in 0..MaxCode }

RECURSIVE SeqsUpTo(_, _)
SeqsUpTo(S, n) ==
  IF n = 0 THEN {<<>>}
  ELSE LET shorter == SeqsUpTo(S, n - 1)
       IN  shorter \cup {Append(q, x) : q \in shorter, x \in S}

Payloads == SeqsUpTo(BaseRecords, MaxRecords) \cup {<<r>> : r \in CodeRecords}

NoStd ==
  [otp_type |-> <<>>, label |-> <<>>, secret |-> <<>>, issuer |-> <<>>,
   algorithm |-> <<>>, digits |-> <<>>, counter |-> <<>>]

\* An input of the decoder: the text handed in, the shape it was built in,
\* and what it was built from (records, payload text, URI parameters).
Input(form, text, recs, b64, std) ==
  [form |-> form, text |-> text, recs |-> recs, b64 |-> b64, std |-> std]

MigrationUriHead ==
  MigrationScheme \o Str(<<"o", "f", "f", "l", "i", "n", "e">>)

DataParam == Str(<<"?", "d", "a", "t", "a", "=">>)

\* urllib.parse.quote(text, safe="") of a base64 text: + / = are escaped.
RECURSIVE QuoteB64(_)
QuoteB64(t) ==
  IF t = <<>> THEN <<>>
  ELSE (IF Head(t) = Ord("+") THEN Str(<<"%", "2", "B">>)
        ELSE IF Head(t) = Ord("/") THEN Str(<<"%", "2", "F">>)
        ELSE IF Head(t) = Ord("=") THEN Str(<<"%", "3", "D">>)
        ELSE <<Head(t)>>) \o QuoteB64(Tail(t))

\* Raw payloads, and the payloads wrapped in a migration URI, appended as
\* they are (when not empty) or percent-encoded.
PayloadInputs ==
  {Input("payload", _make_payload(recs), recs, _make_payload(recs), NoStd) :
     recs \in Payloads}

MigrationUriInputs ==
  {Input("migration_uri", MigrationUriHead \o DataParam \o _make_payload(recs),
         recs, _make_payload(recs), NoStd) :
     recs \in SeqsUpTo(BaseRecords, MaxRecords) \ {<<>>}}
  \cup
  {Input("migration_uri_quoted",
         MigrationUriHead \o DataParam \o QuoteB64(_make_payload(recs)),
         recs, _make_payload(recs), NoStd) : recs \in SeqsUpTo(BaseRecords, MaxRecords)}

\* Migration URIs without a data parameter, or with an empty one.
NoDataTails ==
  { <<>>,
    Str(<<"?">>),
    Str(<<"?", "f", "o", "o", "=", "b", "a", "r">>),
    Str(<<"?", "d", "a", "t", "a">>),
    Str(<<"?", "d", "a", "t", "a", "=">>),
    Str(<<"?", "x", "=", "1", "&", "d", "a", "t", "a", "=">>),
    Str(<<"?", "D", "a", "t", "a", "=", "Q", "Q", "=", "=">>),
    Str(<<"/", "p", "?", "d", "a", "t", "a", "=", "&", "v", "=", "2">>) }

NoDataInputs ==
  {Input("migration_nodata", MigrationUriHead \o tail, <<>>, <<>>, NoStd) :
     tail \in NoDataTails}

\* Texts that are not base64: a payload with a character outside the
\* alphabet put in, with its last character cut off, or with a pad added.
InsertAt(t, k, c) == SubSeq(t, 1, k) \o <<c>> \o SubSeq(t, k + 1, Len(t))

InvalidBase64Inputs ==
  UNION { LET b == _make_payload(recs)
          IN  { Input("stray", InsertAt(b, 0, Ord("!")), recs, b, NoStd),
                Input("stray", InsertAt(b, Len(b) \div 2, Ord(" ")), recs, b, NoStd),
                Input("cut", SubSeq(b, 1, Len(b) - 1), recs, b, NoStd),
                Input("extra_pad", b \o Str(<<"=">>), recs, b, NoStd) } :
          recs \in SeqsUpTo(BaseRecords, MaxRecords) \ {<<>>} }

\* Standards-based single-account URIs: every parameter is either absent
\* (the empty sequence) or present with one value.
StdParams ==
  [otp_type : {Str(<<"t", "o", "t", "p">>), Str(<<"h", "o", "t", "p">>)},
   label : { Str(<<"E", "x", "a", "m", "p", "l", "e", ":", "a", "l", "i", "c", "e", "@",
                   "g", "o", "o", "g", "l", "e", ".", "c", "o", "m">>),
             Str(<<"u", "s", "e", "r", "@", "e", "x", "a", "m", "p", "l", "e", ".",
                   "c", "o", "m">>) },
   secret : { <<>>,
              <<Str(<<"J", "B", "S", "W", "Y", "3", "D", "P", "E", "H", "P", "K", "3", "P",
                      "X", "P">>)>>,
              <<Str(<<"A", "E">>)>> },
   issuer : {<<>>, <<Str(<<"E", "x", "a", "m", "p", "l", "e">>)>>},
   algorithm : {<<>>, <<Str(<<"S", "H", "A", "2", "5", "6">>)>>},
   digits : {<<>>, <<Str(<<"8">>)>>},
   counter : {<<>>, <<Str(<<"5">>)>>}]

\* "&key=value" for a present parameter, nothing for an absent one.
Param(key, v) == IF v = <<>> THEN <<>> ELSE Str(<<"&">>) \o key \o Str(<<"=">>) \o v[1]

StdUri(p) ==
  LET params == Param(Str(<<"s", "e", "c", "r", "e", "t">>), p.secret)
                \o Param(Str(<<"i", "s", "s", "u", "e", "r">>), p.issuer)
                \o Param(Str(<<"a", "l", "g", "o", "r", "i", "t", "h", "m">>), p.algorithm)
                \o Param(Str(<<"d", "i", "g", "i", "t", "s">>), p.digits)
                \o Param(Str(<<"c", "o", "u", "n", "t", "e", "r">>), p.counter)
  IN  Str(<<"o", "t", "p", "a", "u", "t", "h", ":", "/", "/">>) \o p.otp_type
      \o Str(<<"/">>) \o p.label
      \o (IF params = <<>> THEN <<>> ELSE Str(<<"?">>) \o Tail(params))

StdUriInputs == {Input("standard_uri", StdUri(p), <<>>, <<>>, p) : p \in StdParams}

DecoderInputs ==
  PayloadInputs \cup MigrationUriInputs \cup NoDataInputs
  \cup InvalidBase64Inputs \cup StdUriInputs

NoInput == Input("none", <<>>, <<>>, <<>>, NoStd)

\* ------------------------------------------------------------------------
\* Inputs of the extractor
\* ------------------------------------------------------------------------

\* The most barcodes in the pictures of one directory.
MaxBarcodes == 2

Barcode(valid, text, recs, fails) ==
  [valid |-> valid, text |-> text, recs |-> recs, fails |-> fails]

\* Two records with the same (issuer, name) and different secrets, and a
\* record of another account.
RecordA == Rec(<<1>>, Str(<<"a">>), Str(<<"X">>), SHA1, SIX, TOTP, 0)
RecordA2 == Rec(<<2>>, Str(<<"a">>), Str(<<"X">>), SHA256, EIGHT, TOTP, 0)
RecordB == Rec(<<3>>, Str(<<"b">>), <<>>, SHA1, SIX, HOTP, 7)

MigrationUri(recs) == MigrationUriHead \o DataParam \o _make_payload(recs)

\* What a picture can show: two migration codes that share an account, a
\* migration code with no data, a standards-based code, a code with some
\* other text, and a code that cannot be read.
Barcodes ==
  { Barcode(TRUE, MigrationUri(<<RecordA>>), <<RecordA>>, ""),
    Barcode(TRUE, MigrationUri(<<RecordA2, RecordB>>), <<RecordA2, RecordB>>, ""),
    Barcode(TRUE, MigrationUriHead \o Str(<<"?", "f", "o", "o", "=", "b", "a", "r">>), <<>>,
            "ValueError"),
    Barcode(TRUE, Str(<<"o", "t", "p", "a", "u", "t", "h", ":", "/", "/", "t", "o", "t", "p",
                        "/", "b", "?", "s", "e", "c", "r", "e", "t", "=", "A", "E">>), <<>>,
            "binascii.Error"),
    Barcode(TRUE, Str(<<"h", "t", "t", "p", "s", ":", "/", "/", "e", "x", "a", "m", "p", "l",
                        "e", ".", "c", "o", "m">>), <<>>, ""),
    Barcode(FALSE, <<>>, <<>>, "") }

File(image, barcodes) == [kind |-> "file", image |-> image, barcodes |-> barcodes]
Directory == [kind |-> "dir", image |-> FALSE, barcodes |-> <<>>]

NameUpper == Str(<<"B", ".", "J", "P", "G">>)
NameLower == Str(<<"a", ".", "p", "n", "g">>)
NameText == Str(<<"c", ".", "t", "x", "t">>)
NameSubdir == Str(<<"d", ".", "p", "n", "g">>)
NameNotImage == Str(<<"e", ".", "g", "i", "f">>)
MissingPath == Str(<<"n", "o", "p", "e", ".", "p", "n", "g">>)

EmptyFs == [name \in {} |-> Directory]

\* What else the directory holds besides its two pictures: nothing, a
\* picture under a name that is no image name, a subdirectory under an
\* image name, or a file that is no picture under an image name.
Extras ==
  { EmptyFs,
    NameText :> File(TRUE, <<Barcode(TRUE, MigrationUri(<<RecordB>>), <<RecordB>>, "")>>),
    NameSubdir :> Directory,
    NameNotImage :> File(FALSE, <<>>) }

\* The two pictures together show at most MaxBarcodes codes.
FileSystems ==
  UNION { { (NameUpper :> File(TRUE, first)) @@ (NameLower :> File(TRUE, second)) @@ extra :
              second \in SeqsUpTo(Barcodes, MaxBarcodes - Len(first)), extra \in Extras } :
          first \in SeqsUpTo(Barcodes, MaxBarcodes) }

\* The orders in which iterdir can yield the entries of a directory.
Listings(fs, path) ==
  LET names == IF path = DirPath THEN DOMAIN fs ELSE {}
      n == Cardinality(names)
  IN  {l \in [1..n -> names] : \A i, j \in 1..n : l[i] = l[j] => i = j}

\* ------------------------------------------------------------------------
\* State
\* ------------------------------------------------------------------------

VARIABLES
  given,       \* the decoder input drawn for this run
  fs,          \* the file system
  op,          \* the operation that has run, "none" before it
  arg,         \* the path or account the operation was given
  ret,         \* what the operation returned or raised
  now,         \* time.time(), in whole seconds
  hmac_cache,  \* HMAC digests computed ahead; the model's results do not depend on it
  uri_cache,   \* decodings of URI texts computed ahead; results do not depend on it
  _accounts,   \* TwoFAExporterApp._accounts
  table,       \* the rows of the accounts DataTable
  timer_bar,   \* the seconds the timer bar shows
  uri_input,   \* the value of the URI input
  file_input,  \* the value of the file input
  export_dir,  \* the value of the export directory input
  notified,    \* the severity the last step notified, "none" when it notified nothing
  clipboard,   \* the text the last step copied, <<>> when it copied nothing
  written,     \* the files the last step wrote, by name
  made_dir     \* the directory the last step made sure exists, <<>> when none

\* The state of the app and its clock.
appvars ==
  <<now, hmac_cache, uri_cache, _accounts, table, timer_bar, uri_input, file_input,
    export_dir, notified, clipboard, written, made_dir>>

vars == <<given, fs, op, arg, ret, appvars>>

NoResult == [ok |-> FALSE, val |-> <<>>, err |-> "none"]

\* The app is not running: the state of a TwoFAExporterApp never mounted.
NoApp ==
  /\ now = 0
  /\ hmac_cache = <<>>
  /\ uri_cache = <<>>
  /\ _accounts = <<>>
  /\ table = <<>>
  /\ timer_bar = 0
  /\ uri_input = <<>>
  /\ file_input = <<>>
  /\ export_dir = <<>>
  /\ notified = "none"
  /\ clipboard = <<>>
  /\ written = <<>>
  /\ made_dir = <<>>

\* ------------------------------------------------------------------------
\* pyotp: the codes
\* ------------------------------------------------------------------------

\* hmac.new(key, msg, digest).digest(), read from hmac_cache when it holds
\* the digest; of the digests only sha1 is modelled.
Hmac(digest, key, msg) ==
  CASE digest = "sha1" ->
         IF <<key, msg>> \in DOMAIN hmac_cache
         THEN hmac_cache[<<key, msg>>]
         ELSE hmac_sha1(key, msg)

\* OTP.generate_otp, after OTP.__init__: more than ten digits and the digests
\* shorter than 18 bytes are refused, and so is a negative moving factor.
GenerateWithKey(key, digest, digits, input) ==
  IF ~key.ok THEN key
  ELSE Ok(Truncate(Hmac(digest, key.val, int_to_bytestring(input)), digits))

generate_otp(secret, digest, digits, input) ==
  IF digits > 10 \/ digest = "md5" \/ input < 0 THEN Raise("ValueError")
  ELSE GenerateWithKey(byte_secret(secret), digest, digits, input)

\* TOTP.interval
interval == 30

\* TOTP.now() when time.time() is clock: the code of the current window.
TOTP_now_Minute(secret, digest, digits, clock) ==
  generate_otp(secret, digest, digits, clock \div 60)

TOTP_now(secret, digest, digits, clock) ==
  generate_otp(secret, digest, digits, clock \div interval)

\* HOTP.at(count)
HOTP_at(secret, digest, digits, count) == generate_otp(secret, digest, digits, count)

\* ------------------------------------------------------------------------
\* ui.py: code generation
\* ------------------------------------------------------------------------

HASH_MAP ==
  (Str(<<"S", "H", "A", "1">>) :> "sha1")
  @@ (Str(<<"S", "H", "A", "2", "5", "6">>) :> "sha256")
  @@ (Str(<<"S", "H", "A", "5", "1", "2">>) :> "sha512")
  @@ (Str(<<"M", "D", "5">>) :> "md5")

Placeholder == Str(<<"-", "-", "-", "-", "-", "-">>)

\* The try block of _generate_code.
GenerateOrRaise(acct, digest, clock) ==
  IF acct.otp_type = Str(<<"h", "o", "t", "p">>)
  THEN HOTP_at(acct.totp_secret, digest, acct.digits, acct.counter)
  ELSE TOTP_now(acct.totp_secret, digest, acct.digits, clock)

\* _generate_code without its except clause.
OrPlaceholder_Unguarded(otp) == otp

\* The except clause of _generate_code: any exception gives the placeholder.
OrPlaceholder(otp) == IF otp.ok THEN otp ELSE Ok(Placeholder)

\* _generate_code when time.time() is clock.
_generate_code(acct, clock) ==
  OrPlaceholder(GenerateOrRaise(acct, Get(HASH_MAP, acct.algorithm, "sha1"), clock))

\* ------------------------------------------------------------------------
\* exporter.py: the otpauth URI of an account
\* ------------------------------------------------------------------------

\* str(n) of an integer.
IntStr(n) ==
  LET m == IF n < 0 THEN 0 - n ELSE n
      width == CHOOSE d \in 1..10 :
                 /\ m \div (10 ^ (d - 1)) < 10
                 /\ \A e \in 1..(d - 1) : m \div (10 ^ (e - 1)) >= 10
  IN  (IF n < 0 THEN Str(<<"-">>) ELSE <<>>) \o ZeroFilled(m, width)

\* The characters urllib.parse.quote never escapes.
AlwaysSafe ==
  (Ord("A")..Ord("Z")) \cup (Ord("a")..Ord("z")) \cup (Ord("0")..Ord("9"))
  \cup {Ord("_"), Ord("."), Ord("-"), Ord("~")}

HexDigits == Str(<<"0", "1", "2", "3", "4", "5", "6", "7", "8", "9",
                   "A", "B", "C", "D", "E", "F">>)

\* urllib.parse.quote(string, safe): every byte of the UTF-8 text that is
\* neither always safe nor in safe becomes %XX.
RECURSIVE QuoteBytes(_, _)
QuoteBytes(bs, safe) ==
  IF bs = <<>> THEN <<>>
  ELSE (IF Head(bs) \in AlwaysSafe \cup safe THEN <<Head(bs)>>
        ELSE <<Ord("%"), HexDigits[(Head(bs) \div 16) + 1], HexDigits[(Head(bs) % 16) + 1]>>)
       \o QuoteBytes(Tail(bs), safe)

quote(string, safe) == QuoteBytes(Utf8Encode(string), safe)

\* "&".join(f"{k}={quote(v)}" for k, v in params.items())
RECURSIVE JoinParams(_)
JoinParams(params) ==
  IF params = <<>> THEN <<>>
  ELSE Head(params)[1] \o Str(<<"=">>) \o quote(Head(params)[2], {Ord("/")})
       \o (IF Len(params) > 1 THEN Str(<<"&">>) ELSE <<>>)
       \o JoinParams(Tail(params))

\* _build_otpauth_uri with the counter given to every account.
ParamsOf_AlwaysCounter(acct) ==
  << <<Str(<<"s", "e", "c", "r", "e", "t">>), acct.totp_secret>>,
     <<Str(<<"i", "s", "s", "u", "e", "r">>), acct.issuer>>,
     <<Str(<<"a", "l", "g", "o", "r", "i", "t", "h", "m">>), acct.algorithm>>,
     <<Str(<<"d", "i", "g", "i", "t", "s">>), IntStr(acct.digits)>>,
     <<Str(<<"c", "o", "u", "n", "t", "e", "r">>), IntStr(acct.counter)>> >>
  \o (IF acct.otp_type = Str(<<"t", "o", "t", "p">>)
      THEN << <<Str(<<"p", "e", "r", "i", "o", "d">>), Str(<<"3", "0">>)>> >>
      ELSE <<>>)

\* The params dict of _build_otpauth_uri, in insertion order.
ParamsOf(acct) ==
  << <<Str(<<"s", "e", "c", "r", "e", "t">>), acct.totp_secret>>,
     <<Str(<<"i", "s", "s", "u", "e", "r">>), acct.issuer>>,
     <<Str(<<"a", "l", "g", "o", "r", "i", "t", "h", "m">>), acct.algorithm>>,
     <<Str(<<"d", "i", "g", "i", "t", "s">>), IntStr(acct.digits)>> >>
  \o (IF acct.otp_type = Str(<<"h", "o", "t", "p">>)
      THEN << <<Str(<<"c", "o", "u", "n", "t", "e", "r">>), IntStr(acct.counter)>> >>
      ELSE <<>>)
  \o (IF acct.otp_type = Str(<<"t", "o", "t", "p">>)
      THEN << <<Str(<<"p", "e", "r", "i", "o", "d">>), Str(<<"3", "0">>)>> >>
      ELSE <<>>)

\* The label of _build_otpauth_uri: quote(f"{issuer}:{name}", safe=":").
LabelOf(acct) == quote(acct.issuer \o Str(<<":">>) \o acct.name, {Ord(":")})

_build_otpauth_uri(acct) ==
  Str(<<"o", "t", "p", "a", "u", "t", "h", ":", "/", "/">>) \o acct.otp_type
  \o Str(<<"/">>) \o LabelOf(acct) \o Str(<<"?">>) \o JoinParams(ParamsOf(acct))

\* ------------------------------------------------------------------------
\* The decoder and the extractor as state machines
\* ------------------------------------------------------------------------

InitDecoder ==
  /\ given \in DecoderInputs
  /\ fs = EmptyFs
  /\ op = "none"
  /\ arg = <<>>
  /\ ret = NoResult
  /\ NoApp

ExtractBase64Payload ==
  /\ op = "none"
  /\ op' = "extract_base64_payload"
  /\ ret' = extract_base64_payload(given.text)
  /\ UNCHANGED <<given, fs, arg, appvars>>

DecodeMigrationPayload ==
  /\ op = "none"
  /\ op' = "decode_migration_payload"
  /\ ret' = decode_migration_payload(given.text)
  /\ UNCHANGED <<given, fs, arg, appvars>>

DecodeUri ==
  /\ op = "none"
  /\ op' = "decode_uri"
  /\ ret' = decode_uri(given.text)
  /\ UNCHANGED <<given, fs, arg, appvars>>

NextDecoder == ExtractBase64Payload \/ DecodeMigrationPayload \/ DecodeUri

SpecDecoder == InitDecoder /\ [][NextDecoder]_vars

InitExtractor ==
  /\ given = NoInput
  /\ fs \in FileSystems
  /\ op = "none"
  /\ arg = <<>>
  /\ ret = NoResult
  /\ NoApp

ScanImage ==
  /\ op = "none"
  /\ \E path \in DOMAIN fs :
       /\ is_file(fs, path)
       /\ arg' = path
       /\ ret' = scan_image(fs, path)
  /\ op' = "scan_image"
  /\ UNCHANGED <<given, fs, appvars>>

ScanDirectory ==
  /\ op = "none"
  /\ \E listing \in Listings(fs, DirPath) :
       ret' = scan_directory(fs, listing)
  /\ arg' = DirPath
  /\ op' = "scan_directory"
  /\ UNCHANGED <<given, fs, appvars>>

ExtractAccounts ==
  /\ op = "none"
  /\ \E path \in DOMAIN fs \cup {DirPath, MissingPath} :
       /\ arg' = path
       /\ \E listing \in Listings(fs, path) :
            ret' = extract_accounts(fs, path, listing)
  /\ op' = "extract_accounts"
  /\ UNCHANGED <<given, fs, appvars>>

NextExtractor == ScanImage \/ ScanDirectory \/ ExtractAccounts

SpecExtractor == InitExtractor /\ [][NextExtractor]_vars

\* ------------------------------------------------------------------------
\* Code generation and URI building as a state machine
\* ------------------------------------------------------------------------

\* An OtpAccount (decoder.py), built directly.
Account(issuer, name, totp_secret, algorithm, digits, otp_type, counter) ==
  [name |-> name, issuer |-> issuer, totp_secret |-> totp_secret,
   algorithm |-> algorithm, digits |-> digits, otp_type |-> otp_type,
   counter |-> counter]

\* The secret of the RFC 4226/6238 vectors, GEZDGNBVGY3TQOJQGEZDGNBVGY3TQOJQ.
RfcSecret == RStrip(b32encode(RfcKey), {Ord("=")})

HelloSecret ==
  Str(<<"J", "B", "S", "W", "Y", "3", "D", "P", "E", "H", "P", "K", "3", "P", "X", "P">>)

\* Secrets: the two above, one in lower case, the empty one, one that is
\* no base32 text at any padding, and one with a character outside base32.
Secrets ==
  {RfcSecret, HelloSecret, lower(HelloSecret), <<>>, Str(<<"A">>),
   Str(<<"J", "B", "S", "W", "Y", "3", "D", "!">>)}

\* The algorithm names of HASH_MAP that the model computes or refuses, and
\* a name HASH_MAP does not know.
Algorithms == {Str(<<"S", "H", "A", "1">>), Str(<<"M", "D", "5">>), Str(<<"X">>)}

OtpTypes == {Str(<<"t", "o", "t", "p">>), Str(<<"h", "o", "t", "p">>)}

\* The clock readings: both ends of the first two windows and the reading
\* 1111111109 of RFC 6238.
Times == {0, 29, 30, 59, 1111111109}

\* Accounts that differ in what the code depends on.
CodeAccounts ==
  { Account(Str(<<"X">>), Str(<<"a">>), s, alg, d, ty, c) :
      s \in Secrets, alg \in Algorithms, d \in {6, 8}, ty \in OtpTypes, c \in {0, 1, -1} }

\* Accounts that differ in what the URI spells: an issuer and names with
\* characters that quote escapes, and an otp_type that is neither known one.
UriAccounts ==
  { Account(issuer, name, HelloSecret, Str(<<"S", "H", "A", "1">>), 6, ty, c) :
      issuer \in {<<>>, Str(<<"X">>), Str(<<"A", ":", "B", " ", "&">>)},
      name \in {Str(<<"a">>), Str(<<"u", "@", "x", "/", "y">>), Str(<<"b", " ", "c", "?">>) \o <<233>>},
      ty \in OtpTypes \cup {Str(<<"x", "o", "t", "p">>)},
      c \in {0, 7} }

GeneratorAccounts == CodeAccounts \cup UriAccounts

InitGenerator ==
  /\ hmac_cache = HmacSha1Table
  /\ uri_cache = <<>>
  /\ given = NoInput
  /\ fs = EmptyFs
  /\ op = "none"
  /\ arg \in GeneratorAccounts
  /\ ret = NoResult
  /\ now \in Times
  /\ _accounts = <<>>
  /\ table = <<>>
  /\ timer_bar = 0
  /\ uri_input = <<>>
  /\ file_input = <<>>
  /\ export_dir = <<>>
  /\ notified = "none"
  /\ clipboard = <<>>
  /\ written = <<>>
  /\ made_dir = <<>>

GenerateCode ==
  /\ op = "none"
  /\ op' = "_generate_code"
  /\ ret' = _generate_code(arg, now)
  /\ UNCHANGED <<given, fs, arg, appvars>>

BuildOtpauthUri ==
  /\ op = "none"
  /\ op' = "_build_otpauth_uri"
  /\ ret' = Ok(_build_otpauth_uri(arg))
  /\ UNCHANGED <<given, fs, arg, appvars>>

NextGenerator == GenerateCode \/ BuildOtpauthUri

SpecGenerator == InitGenerator /\ [][NextGenerator]_vars

\* ------------------------------------------------------------------------
\* ui.py: the accounts table and the handlers of the app
\* ------------------------------------------------------------------------

\* The row key of an account: f"{acct.issuer}:{acct.name}".
RowKey(acct) == acct.issuer \o Str(<<":">>) \o acct.name

HasRow(rows, key) == \E i \in 1..Len(rows) : rows[i].key = key

\* DataTable.add_row(issuer, name, secret, code, key=key): a key that a row
\* already has raises DuplicateKey and leaves the rows as they are.
add_row(rows, acct, code, key) ==
  IF HasRow(rows, key) THEN [ok |-> FALSE, val |-> rows, err |-> "DuplicateKey"]
  ELSE Ok(Append(rows, [key |-> key, issuer |-> acct.issuer, account |-> acct.name,
                        secret |-> acct.totp_secret, code |-> code]))

\* DataTable.update_cell(row_key, "code", value): a key that no row has
\* raises CellDoesNotExist.
update_cell(rows, key, code) ==
  IF ~HasRow(rows, key) THEN [ok |-> FALSE, val |-> rows, err |-> "CellDoesNotExist"]
  ELSE Ok([i \in 1..Len(rows) |->
             IF rows[i].key = key THEN [rows[i] EXCEPT !.code = code] ELSE rows[i]])

\* The loop of _populate_table from account i on: the first add_row that
\* raises ends it.
RECURSIVE AddRows(_, _, _, _)
AddRows(accounts, i, st, clock) ==
  IF i > Len(accounts) \/ ~st.ok THEN st
  ELSE AddRows(accounts, i + 1,
               add_row(st.val, accounts[i], _generate_code(accounts[i], clock).val,
                       RowKey(accounts[i])),
               clock)

\* _populate_table: table.clear(), then one row per account.
_populate_table(accounts, clock) == AddRows(accounts, 1, Ok(<<>>), clock)

\* The loop of _refresh_codes from account i on: the code of every account
\* is generated and written to the row of its key; an update_cell that
\* raises is passed over.
RECURSIVE UpdateRows(_, _, _, _)
UpdateRows(accounts, i, rows, clock) ==
  IF i > Len(accounts) THEN rows
  ELSE UpdateRows(accounts, i + 1,
                  update_cell(rows, RowKey(accounts[i]),
                              _generate_code(accounts[i], clock).val).val,
                  clock)

\* _seconds_remaining
_seconds_remaining(clock) == 30 - (clock % 30)

\* ------------------------------------------------------------------------
\* exporter.py: the files of an export
\* ------------------------------------------------------------------------

\* The characters _sanitize_filename replaces.
IllegalInPath ==
  {Ord("<"), Ord(">"), Ord(":"), Ord("\""), Ord("/"), Ord("\\"), Ord("|"), Ord("?"), Ord("*")}
  \cup 0..31

_sanitize_filename(name) ==
  LET replaced == [i \in 1..Len(name) |->
                     IF name[i] \in IllegalInPath THEN Ord("_") ELSE name[i]]
      cs == {Ord("."), Ord(" ")}
  IN  LStrip(RStrip(replaced, cs), cs)

_display_name(acct) ==
  IF acct.issuer # <<>>
  THEN acct.issuer \o Str(<<" ", "(">>) \o acct.name \o Str(<<")">>)
  ELSE acct.name

\* The file names of the three single-file exports.
ExportFileName ==
  [ apple |-> Str(<<"a", "p", "p", "l", "e", "_", "p", "a", "s", "s", "w", "o", "r", "d", "s",
                    "_", "e", "x", "p", "o", "r", "t", ".", "c", "s", "v">>),
    bitwarden |-> Str(<<"b", "i", "t", "w", "a", "r", "d", "e", "n", "_", "e", "x", "p", "o",
                        "r", "t", ".", "c", "s", "v">>),
    aegis |-> Str(<<"a", "e", "g", "i", "s", "_", "e", "x", "p", "o", "r", "t", ".", "j", "s",
                    "o", "n">>) ]

\* The file name of an account's QR code.
QrFileName(acct) == _sanitize_filename(_display_name(acct)) \o Str(<<".", "p", "n", "g">>)

\* The paths export_qr_codes returns, one per account.
QrPaths(accounts) == [i \in 1..Len(accounts) |-> QrFileName(accounts[i])]

\* The paths an exporter returns: the path of its file, for qr the list of
\* export_qr_codes.
ExportedPaths(fmt, accounts) ==
  IF fmt = "qr" THEN QrPaths(accounts) ELSE <<ExportFileName[fmt]>>

\* The files an export leaves in the directory, each with the accounts
\* whose entries or URI it holds: one file for apple, bitwarden and aegis,
\* for qr one file per name, the last account of a name being the one kept.
ExportedFiles(fmt, accounts) ==
  IF fmt = "qr"
  THEN [name \in {QrFileName(accounts[i]) : i \in 1..Len(accounts)} |->
          <<accounts[CHOOSE i \in 1..Len(accounts) :
                       /\ QrFileName(accounts[i]) = name
                       /\ \A j \in (i + 1)..Len(accounts) : QrFileName(accounts[j]) # name]>>]
  ELSE [name \in {ExportFileName[fmt]} |-> accounts]

\* ------------------------------------------------------------------------
\* export_qr_codes as a state machine
\* ------------------------------------------------------------------------

\* The longest account list exported.
MaxExported == 2

QrAccount(issuer, name) ==
  Account(issuer, name, HelloSecret, Str(<<"S", "H", "A", "1">>), 6,
          Str(<<"t", "o", "t", "p">>), 0)

\* Accounts that differ in (issuer, name): with and without issuer, with
\* characters _sanitize_filename replaces or strips, and with a name that
\* reads like the display name of another account.
QrAccounts ==
  { QrAccount(Str(<<"X">>), Str(<<"a">>)),
    QrAccount(<<>>, Str(<<"X", " ", "(", "a", ")">>)),
    QrAccount(Str(<<"X", ":">>), Str(<<"a">>)),
    QrAccount(Str(<<"X", "_">>), Str(<<"a">>)),
    QrAccount(<<>>, Str(<<"a">>)),
    QrAccount(<<>>, Str(<<"a", ".">>)),
    QrAccount(Str(<<"Y">>), Str(<<"b">>)) }

\* The account lists exported: every list of up to MaxExported accounts.
QrAccountLists == UNION {[1..n -> QrAccounts] : n \in 0..MaxExported}

\* The output_path of the export.
OutDir == Str(<<"o", "u", "t">>)

InitExporter ==
  /\ given = NoInput
  /\ fs = EmptyFs
  /\ op = "none"
  /\ arg \in QrAccountLists
  /\ ret = NoResult
  /\ NoApp

\* export_qr_codes(arg, OutDir): the directory is made, one image is saved
\* per account under its file name, a later one replacing an earlier one of
\* the same name, and the paths are returned.
ExportQrCodes ==
  /\ op = "none"
  /\ op' = "export_qr_codes"
  /\ made_dir' = OutDir
  /\ written' = ExportedFiles("qr", arg)
  /\ ret' = Ok(QrPaths(arg))
  /\ UNCHANGED <<given, fs, arg, now, hmac_cache, uri_cache, _accounts, table, timer_bar, uri_input,
                 file_input, export_dir, notified, clipboard>>

NextExporter == ExportQrCodes

SpecExporter == InitExporter /\ [][NextExporter]_vars

\* ------------------------------------------------------------------------
\* The app as a state machine
\* ------------------------------------------------------------------------

\* The accounts of the payloads the user loads: one whose code cannot be
\* generated (MD5), a TOTP account, an HOTP account without issuer, and one
\* with the issuer and name of the TOTP account.
RecMd5 == Rec(HelloKey, Str(<<"m">>), Str(<<"X">>), MD5, SIX, TOTP, 0)
RecTotp == Rec(HelloKey, Str(<<"a">>), Str(<<"X">>), SHA1, SIX, TOTP, 0)
RecHotp == Rec(HelloKey, Str(<<"h">>), <<>>, SHA1, SIX, HOTP, 1)
RecSameKey == Rec(HelloKey, Str(<<"a">>), Str(<<"X">>), SHA1, EIGHT, HOTP, 0)

\* Two accounts that differ in issuer and in name and whose issuer and name
\* joined by a colon read the same.
RecColonIssuer == Rec(HelloKey, Str(<<"c">>), Str(<<"a", ":", "b">>), SHA1, SIX, TOTP, 0)
RecColonName == Rec(RfcKey, Str(<<"b", ":", "c">>), Str(<<"a">>), SHA1, SIX, TOTP, 0)

\* The migration URI of the records as the exporting app spells it, the
\* payload percent-encoded.
QuotedUri(recs) == MigrationUriHead \o DataParam \o QuoteB64(_make_payload(recs))

UriThree == QuotedUri(<<RecMd5, RecTotp, RecHotp>>)
UriSameKey == QuotedUri(<<RecTotp, RecSameKey, RecHotp>>)
UriColon == QuotedUri(<<RecColonIssuer, RecColonName>>)
UriNoPayload == Str(<<"x">>)
UriBlank == Str(<<" ">>)

\* What the user types into the URI input, the file input and the export
\* directory input.
UriTexts == {<<>>, UriThree, UriSameKey, UriColon, UriNoPayload, UriBlank}
FileTexts == {<<>>, NameLower, NameText}
DirTexts == {<<>>, Str(<<"o", "u", "t">>)}

\* The decoding of every URI text the user types, stripped.
DecodedUriTexts == [text \in {Strip(t) : t \in UriTexts} |-> decode_uri(text)]

\* decode_uri(text), read from uri_cache when it holds the decoding.
DecodedUri(text) ==
  IF text \in DOMAIN uri_cache THEN uri_cache[text] ELSE decode_uri(text)

\* The file system of the app: one image with the QR code of one account;
\* the path NameText does not exist.
AppFs == NameLower :> File(TRUE, <<Barcode(TRUE, QuotedUri(<<RecHotp>>), <<RecHotp>>, "")>>)

\* The clock readings: the last second of a window and the first of the next.
AppTimes == {29, 30}

\* The formats of the export buttons.
Formats == {"apple", "bitwarden", "aegis", "qr"}

\* What starts a load: the Load button of the file row, the Load button of
\* the URI row, and the key binding ctrl+l.
LoadTriggers == {"load-btn", "load-uri-btn", "action_load_accounts"}

\* _get_export_dir: the stripped text of the export directory input, <<>>
\* standing for None.
_get_export_dir(raw) == Strip(raw)

\* __init__ and on_mount: no accounts, an empty table, the timer bar drawn.
InitApp ==
  /\ hmac_cache = HmacSha1Table
  /\ uri_cache = DecodedUriTexts
  /\ given = NoInput
  /\ fs = AppFs
  /\ op = "on_mount"
  /\ arg = <<>>
  /\ ret = NoResult
  /\ now = 29
  /\ _accounts = <<>>
  /\ table = <<>>
  /\ timer_bar = _seconds_remaining(29)
  /\ uri_input = <<>>
  /\ file_input = <<>>
  /\ export_dir = <<>>
  /\ notified = "none"
  /\ clipboard = <<>>
  /\ written = <<>>
  /\ made_dir = <<>>

\* The step writes no file and makes no directory.
NoFiles == written' = <<>> /\ made_dir' = <<>>

\* The step is no load: no trigger of a load, nothing decoded.
NoCall == arg' = <<>> /\ ret' = NoResult

\* The step notifies nothing, copies nothing and writes no file.
Quiet == notified' = "none" /\ clipboard' = <<>> /\ NoFiles

\* The user edits one of the three inputs.
EditUri ==
  /\ \E text \in UriTexts : uri_input' = text
  /\ op' = "edit"
  /\ NoCall
  /\ Quiet
  /\ UNCHANGED <<given, fs, now, hmac_cache, uri_cache, _accounts, table, timer_bar,
                 file_input, export_dir>>

EditFile ==
  /\ \E text \in FileTexts : file_input' = text
  /\ op' = "edit"
  /\ NoCall
  /\ Quiet
  /\ UNCHANGED <<given, fs, now, hmac_cache, uri_cache, _accounts, table, timer_bar,
                 uri_input, export_dir>>

EditExportDir ==
  /\ \E text \in DirTexts : export_dir' = text
  /\ op' = "edit"
  /\ NoCall
  /\ Quiet
  /\ UNCHANGED <<given, fs, now, hmac_cache, uri_cache, _accounts, table, timer_bar,
                 uri_input, file_input>>

\* Time passes.
ClockAdvances ==
  /\ \E t \in AppTimes : t > now /\ now' = t
  /\ op' = "clock"
  /\ NoCall
  /\ Quiet
  /\ UNCHANGED <<given, fs, hmac_cache, uri_cache, _accounts, table, timer_bar,
                 uri_input, file_input, export_dir>>

\* _do_load with a handler of exceptions that empties the account list.
Loaded_ClearsOnError(decoded) ==
  /\ ret' = decoded
  /\ IF ~decoded.ok
     THEN /\ notified' = "error"
          /\ _accounts' = <<>>
          /\ table' = <<>>
     ELSE /\ _accounts' = decoded.val
          /\ table' = _populate_table(decoded.val, now).val
          /\ notified' = IF _populate_table(decoded.val, now).ok THEN "information" ELSE "error"

\* The rest of _do_load once the accounts are decoded (ret records what the
\* decoding returned or raised): the assignment to _accounts,
\* _populate_table and the notification; an exception of the decoding or of
\* _populate_table is notified as an error.
Loaded(decoded) ==
  /\ ret' = decoded
  /\ IF ~decoded.ok
     THEN /\ notified' = "error"
          /\ UNCHANGED <<_accounts, table>>
     ELSE /\ _accounts' = decoded.val
          /\ table' = _populate_table(decoded.val, now).val
          /\ notified' = IF _populate_table(decoded.val, now).ok THEN "information" ELSE "error"

\* _do_load that looks at the file input first.
DoLoad_FileFirst ==
  /\ IF Strip(file_input) # <<>>
     THEN \E listing \in Listings(fs, Strip(file_input)) :
            Loaded(extract_accounts(fs, Strip(file_input), listing))
     ELSE IF Strip(uri_input) # <<>>
     THEN Loaded(DecodedUri(Strip(uri_input)))
     ELSE /\ ret' = NoResult
          /\ notified' = "warning"
          /\ UNCHANGED <<_accounts, table>>
  /\ op' = "_do_load"
  /\ \E trigger \in LoadTriggers : arg' = <<trigger>>
  /\ clipboard' = <<>>
  /\ NoFiles
  /\ UNCHANGED <<given, fs, now, hmac_cache, uri_cache, timer_bar, uri_input, file_input,
                 export_dir>>

\* _do_load: the URI input when it is not blank, else the file input, else a
\* warning.
DoLoad ==
  /\ IF Strip(uri_input) # <<>>
     THEN Loaded(DecodedUri(Strip(uri_input)))
     ELSE IF Strip(file_input) # <<>>
     THEN \E listing \in Listings(fs, Strip(file_input)) :
            Loaded(extract_accounts(fs, Strip(file_input), listing))
     ELSE /\ ret' = NoResult
          /\ notified' = "warning"
          /\ UNCHANGED <<_accounts, table>>
  /\ op' = "_do_load"
  /\ \E trigger \in LoadTriggers : arg' = <<trigger>>
  /\ clipboard' = <<>>
  /\ NoFiles
  /\ UNCHANGED <<given, fs, now, hmac_cache, uri_cache, timer_bar, uri_input, file_input,
                 export_dir>>

\* _refresh_codes, the callback of the one-second interval: the timer bar,
\* then the code cell of every account.
RefreshCodes ==
  /\ timer_bar' = _seconds_remaining(now)
  /\ table' = IF _accounts = <<>> THEN table ELSE UpdateRows(_accounts, 1, table, now)
  /\ op' = "_refresh_codes"
  /\ NoCall
  /\ Quiet
  /\ UNCHANGED <<given, fs, now, hmac_cache, uri_cache, _accounts, uri_input, file_input,
                 export_dir>>

\* The columns of the cells the user selects: one whose cell can be empty
\* and the one of the codes.
SelectedColumns == {"issuer", "code"}

\* on_data_table_cell_selected: the text of the cell, when it has any, is
\* copied and notified.
CellSelected ==
  /\ \E i \in 1..Len(table), column \in SelectedColumns :
       IF table[i][column] # <<>>
       THEN clipboard' = table[i][column] /\ notified' = "information"
       ELSE clipboard' = <<>> /\ notified' = "none"
  /\ op' = "on_data_table_cell_selected"
  /\ NoCall
  /\ NoFiles
  /\ UNCHANGED <<given, fs, now, hmac_cache, uri_cache, _accounts, table, timer_bar,
                 uri_input, file_input, export_dir>>

\* _do_export without the check of the export directory.
DoExport_WithoutDirectory ==
  /\ \E fmt \in Formats :
       IF _accounts = <<>>
       THEN NoCall /\ NoFiles /\ notified' = "warning"
       ELSE /\ arg' = <<fmt>>
            /\ ret' = Ok(ExportedPaths(fmt, _accounts))
            /\ made_dir' = _get_export_dir(export_dir)
            /\ written' = ExportedFiles(fmt, _accounts)
            /\ notified' = "information"
  /\ op' = "_do_export"
  /\ clipboard' = <<>>
  /\ UNCHANGED <<given, fs, now, hmac_cache, uri_cache, _accounts, table, timer_bar,
                 uri_input, file_input, export_dir>>

\* _do_export: a warning without accounts or without an export directory,
\* else the exporter of the format (arg) runs: it makes sure the directory
\* exists, writes its files and returns their paths (ret).
DoExport ==
  /\ \E fmt \in Formats :
       IF _accounts = <<>> \/ _get_export_dir(export_dir) = <<>>
       THEN NoCall /\ NoFiles /\ notified' = "warning"
       ELSE /\ arg' = <<fmt>>
            /\ ret' = Ok(ExportedPaths(fmt, _accounts))
            /\ made_dir' = _get_export_dir(export_dir)
            /\ written' = ExportedFiles(fmt, _accounts)
            /\ notified' = "information"
  /\ op' = "_do_export"
  /\ clipboard' = <<>>
  /\ UNCHANGED <<given, fs, now, hmac_cache, uri_cache, _accounts, table, timer_bar,
                 uri_input, file_input, export_dir>>

NextApp ==
  \/ EditUri
  \/ EditFile
  \/ EditExportDir
  \/ ClockAdvances
  \/ DoLoad
  \/ RefreshCodes
  \/ CellSelected
  \/ DoExport

SpecApp == InitApp /\ [][NextApp]_vars

\* ------------------------------------------------------------------------
\* Properties of the decoder
\* ------------------------------------------------------------------------

Sha1Text == Str(<<"S", "H", "A", "1">>)
TotpText == Str(<<"t", "o", "t", "p">>)
HotpText == Str(<<"h", "o", "t", "p">>)

\* The value of a base32 character.
B32Value(c) == IF c \in Ord("A")..Ord("Z") THEN c - Ord("A") ELSE c - Ord("2") + 26

\* text is the unpadded base32 spelling of bytes: one character for every
\* five bits begun, each holding those bits.
SpellsBase32(text, bytes) ==
  /\ Len(text) = (8 * Len(bytes) + 4) \div 5
  /\ \A k \in 1..Len(text) :
       B32Value(text[k]) =
         BitAt(bytes, 5 * k - 4) * 16 + BitAt(bytes, 5 * k - 3) * 8
         + BitAt(bytes, 5 * k - 2) * 4 + BitAt(bytes, 5 * k - 1) * 2
         + BitAt(bytes, 5 * k)

\* C1: decode_migration_payload of a valid payload of N records returns N
\* accounts, the i-th one carrying the name, issuer, counter and secret of
\* the i-th record; records with equal (issuer, name) are all kept.
C1_OneAccountPerRecord ==
  (given.form = "payload" /\ op = "decode_migration_payload") =>
    /\ ret.ok
    /\ Len(ret.val) = Len(given.recs)
    /\ \A i \in 1..Len(given.recs) :
         /\ ret.val[i].name = given.recs[i].name
         /\ ret.val[i].issuer = given.recs[i].issuer
         /\ ret.val[i].counter = given.recs[i].counter
         /\ SpellsBase32(ret.val[i].totp_secret, given.recs[i].secret)

\* A payload of two records with the same (issuer, name) and different
\* secrets has been decoded into two accounts.
C1_Witness ==
  /\ given.form = "payload" /\ op = "decode_migration_payload"
  /\ Len(given.recs) = 2 /\ Len(ret.val) = 2
  /\ given.recs[1].issuer = given.recs[2].issuer
  /\ given.recs[1].name = given.recs[2].name
  /\ ret.val[1].totp_secret # ret.val[2].totp_secret

\* The value a URI parameter stands for: the one given, or the default.
OrDefault(v, default) == IF v = <<>> THEN default ELSE v[1]

\* The number a text of decimal digits spells.
RECURSIVE Decimal(_)
Decimal(t) ==
  IF t = <<>> THEN 0
  ELSE 10 * Decimal(SubSeq(t, 1, Len(t) - 1)) + (t[Len(t)] - Ord("0"))

\* C2: decode_uri of a standards-based URI returns exactly one account with
\* the secret verbatim, the type of the path segment, algorithm and digits
\* as given or SHA1 and 6, the counter as given or 0; it fails only when
\* the secret is missing.
C2_StandardUriDecodes ==
  (given.form = "standard_uri" /\ op = "decode_uri") =>
    IF given.std.secret = <<>> THEN ~ret.ok
    ELSE /\ ret.ok
         /\ Len(ret.val) = 1
         /\ ret.val[1].totp_secret = given.std.secret[1]
         /\ ret.val[1].otp_type = given.std.otp_type
         /\ ret.val[1].algorithm = OrDefault(given.std.algorithm, Sha1Text)
         /\ ret.val[1].digits = Decimal(OrDefault(given.std.digits, Str(<<"6">>)))
         /\ ret.val[1].counter = Decimal(OrDefault(given.std.counter, Str(<<"0">>)))

\* C3: a migration URI with no data parameter, or an empty one, makes
\* extract_base64_payload and decode_uri fail; nothing is returned.
C3_MissingDataFails ==
  (given.form = "migration_nodata" /\ op \in {"extract_base64_payload", "decode_uri"}) =>
    ~ret.ok /\ ret.val = <<>>

\* decode_uri has raised on a migration URI whose data parameter is empty.
C3_Witness ==
  /\ given.form = "migration_nodata" /\ op = "decode_uri"
  /\ given.text = MigrationUriHead \o DataParam
  /\ ~ret.ok /\ ret.err = "ValueError"

\* C4: extract_base64_payload of "otpauth-migration://offline?data=" followed
\* by a base64 text b returns b, character for character.
C4_PayloadReturnedVerbatim ==
  (given.form = "migration_uri" /\ op = "extract_base64_payload") =>
    ret.ok /\ ret.val = given.b64

\* The strict reading of base64: only alphabet characters, a length that is
\* a multiple of 4, and at most two pads, all at the end.
ValidBase64(s) ==
  LET n == Len(RStrip(s, {Ord("=")}))
  IN  /\ Len(s) % 4 = 0
      /\ Len(s) - n <= 2
      /\ \A i \in 1..n : B64Value(s[i]) < 64

\* C5: decode_migration_payload of a text that is not valid base64 fails and
\* returns no accounts.
C5_InvalidBase64Fails ==
  (op = "decode_migration_payload" /\ ~ValidBase64(given.text)) => ~ret.ok

\* What the wire codes stand for: the listed codes, the default otherwise.
AlgorithmOfCode(c) ==
  IF c = 2 THEN Str(<<"S", "H", "A", "2", "5", "6">>)
  ELSE IF c = 3 THEN Str(<<"S", "H", "A", "5", "1", "2">>)
  ELSE IF c = 4 THEN Str(<<"M", "D", "5">>)
  ELSE Sha1Text

DigitsOfCode(c) == IF c = 2 THEN 8 ELSE IF c = 3 THEN 7 ELSE 6

TypeOfCode(c) == IF c = 1 THEN HotpText ELSE TotpText

\* C6: whatever the wire codes of a record, the decode succeeds; code 0 and
\* every unknown code give SHA1 / 6 / totp, a known code its mapped value,
\* so digits is one of 6, 7, 8, and algorithm and type are known names.
C6_EnumCodesResolve ==
  (given.form = "payload" /\ op = "decode_migration_payload") =>
    /\ ret.ok
    /\ Len(ret.val) = Len(given.recs)
    /\ \A i \in 1..Len(given.recs) :
         /\ ret.val[i].digits = DigitsOfCode(given.recs[i].digits)
         /\ ret.val[i].digits \in {6, 7, 8}
         /\ ret.val[i].algorithm = AlgorithmOfCode(given.recs[i].algorithm)
         /\ ret.val[i].otp_type = TypeOfCode(given.recs[i].type)

\* A record whose three codes are all unknown has been decoded to the
\* defaults, and one whose codes are SHA512, SEVEN and HOTP to those.
C6_Witness ==
  /\ given.form = "payload" /\ op = "decode_migration_payload" /\ ret.ok
  /\ Len(given.recs) = 1
  /\ \/ /\ given.recs[1].algorithm = MaxCode /\ given.recs[1].digits = MaxCode
        /\ given.recs[1].type = MaxCode
        /\ ret.val[1].algorithm = Sha1Text /\ ret.val[1].digits = 6
        /\ ret.val[1].otp_type = TotpText
     \/ /\ given.recs[1].algorithm = 3 /\ given.recs[1].digits = 3
        /\ given.recs[1].type = 1 /\ ret.val[1].digits = 7
        /\ ret.val[1].otp_type = HotpText

\* ------------------------------------------------------------------------
\* Properties of the extractor
\* ------------------------------------------------------------------------

\* The items of a sequence whose key no earlier item has, in order; keys
\* is the sequence of the keys of the items.
FirstOccurrences(q, keys) ==
  LET first == SelectSeq([i \in 1..Len(q) |-> i],
                         LAMBDA i : \A j \in 1..(i - 1) : keys[j] # keys[i])
  IN  [k \in 1..Len(first) |-> q[first[k]]]

RECURSIVE Flatten(_)
Flatten(qs) == IF qs = <<>> THEN <<>> ELSE Head(qs) \o Flatten(Tail(qs))

\* The codes of a picture that are OTP URIs: readable, and starting with
\* one of the two schemes.
OtpCodes(f, name) ==
  SelectSeq(f[name].barcodes,
            LAMBDA code : /\ code.valid
                          /\ \/ StartsWith(code.text, MigrationScheme)
                             \/ StartsWith(code.text, SubSeq(MigrationScheme, 1, 7)
                                                        \o Str(<<":", "/", "/">>)))

\* The regular files of the directory under an image name, in path order.
ImageFiles(f) ==
  LET names == {n \in DOMAIN f :
                  /\ f[n].kind = "file"
                  /\ \E ext \in IMAGE_EXTENSIONS :
                       /\ Len(n) > Len(ext)
                       /\ lower(SubSeq(n, Len(n) - Len(ext) + 1, Len(n))) = ext}
  IN  CHOOSE q \in [1..Cardinality(names) -> names] :
        \A i, j \in 1..Cardinality(names) : i < j => TextLess(q[i], q[j])

TextsOf(codes) == [i \in 1..Len(codes) |-> codes[i].text]

\* The OTP codes a scan of the path is to return: those of the file, or
\* those of the image files of the directory, in path order, each text once.
ScannedCodes(f, path) ==
  IF path = DirPath
  THEN LET codes == Flatten([i \in 1..Len(ImageFiles(f)) |->
                               OtpCodes(f, ImageFiles(f)[i])])
       IN  FirstOccurrences(codes, TextsOf(codes))
  ELSE IF path \in DOMAIN f /\ f[path].kind = "file" THEN OtpCodes(f, path)
  ELSE <<>>

\* The pictures a scan of the path opens are all pictures.
AllOpen(f, path) ==
  IF path = DirPath THEN \A i \in 1..Len(ImageFiles(f)) : f[ImageFiles(f)[i]].image
  ELSE (path \in DOMAIN f /\ f[path].kind = "file") => f[path].image

\* C7: the accounts extract_accounts returns are those of the records of the
\* scanned URIs, in order, less every record whose (issuer, name) an earlier
\* record has: no two share (issuer, name), and the first one decoded stays.
C7_FirstAccountPerKeyKept ==
  (op = "extract_accounts" /\ ret.ok) =>
    LET codes == ScannedCodes(fs, arg)
        recs == Flatten([i \in 1..Len(codes) |-> codes[i].recs])
        kept == FirstOccurrences(recs, [i \in 1..Len(recs) |->
                                          <<recs[i].issuer, recs[i].name>>])
    IN  /\ \A i, j \in 1..Len(ret.val) :
             (ret.val[i].issuer = ret.val[j].issuer /\ ret.val[i].name = ret.val[j].name)
               => i = j
        /\ Len(ret.val) = Len(kept)
        /\ \A i \in 1..Len(kept) :
             /\ ret.val[i].issuer = kept[i].issuer
             /\ ret.val[i].name = kept[i].name
             /\ SpellsBase32(ret.val[i].totp_secret, kept[i].secret)

\* Two URIs that share an account were scanned, and the account list holds
\* that account once, with the secret of the URI scanned first.
C7_Witness ==
  /\ op = "extract_accounts" /\ ret.ok /\ arg = DirPath
  /\ LET codes == ScannedCodes(fs, arg)
     IN  /\ Len(codes) = 2
         /\ Len(codes[1].recs) + Len(codes[2].recs) = 3
         /\ Len(codes[1].recs) = 2
         /\ Len(ret.val) = 2
         /\ SpellsBase32(ret.val[1].totp_secret, RecordA2.secret)

\* C8: scan_directory returns the OTP URIs of the regular files under an
\* image name, taken in sorted path order, each text once at its first
\* occurrence, whatever the order in which the directory lists its entries.
C8_DirectoryScanSortedAndUnique ==
  (op = "scan_directory" /\ AllOpen(fs, DirPath)) =>
    /\ ret.ok
    /\ ret.val = TextsOf(ScannedCodes(fs, DirPath))
    /\ \A i, j \in 1..Len(ret.val) : ret.val[i] = ret.val[j] => i = j

\* A directory whose two pictures show two different URIs, next to an entry
\* that is not to be visited, has been scanned: the URI of the picture that
\* sorts first comes first.
C8_Witness ==
  /\ op = "scan_directory" /\ ret.ok
  /\ Cardinality(DOMAIN fs) = 3
  /\ Len(ret.val) = 2
  /\ OtpCodes(fs, NameUpper) # <<>>
  /\ ret.val[1] = OtpCodes(fs, NameUpper)[1].text
  /\ ret.val[2] = OtpCodes(fs, NameLower)[1].text

\* C9: when decode_uri raises on one of the scanned URIs, extract_accounts
\* raises that error and returns no accounts.
C9_DecodeErrorSurfaces ==
  LET codes == ScannedCodes(fs, arg)
      failing == {i \in 1..Len(codes) : codes[i].fails # ""}
  IN  (op = "extract_accounts" /\ AllOpen(fs, arg) /\ failing # {}) =>
        /\ ~ret.ok
        /\ ret.val = <<>>
        /\ ret.err = codes[CHOOSE i \in failing : \A j \in failing : i <= j].fails

\* A URI that decodes was scanned before one that does not, and
\* extract_accounts has raised.
C9_Witness ==
  /\ op = "extract_accounts" /\ ~ret.ok /\ ret.err = "ValueError"
  /\ LET codes == ScannedCodes(fs, arg)
     IN  Len(codes) = 2 /\ codes[1].recs # <<>> /\ codes[2].fails = "ValueError"

\* C10: scan_image returns the texts of the readable codes that start with
\* one of the two OTP schemes, in reading order; other codes add nothing
\* and make neither scan_image nor a directory scan fail.
C10_OnlyOtpTextsReturned ==
  /\ (op = "scan_image" /\ fs[arg].image) =>
       ret.ok /\ ret.val = TextsOf(OtpCodes(fs, arg))
  /\ (op = "scan_directory" /\ AllOpen(fs, DirPath)) => ret.ok

\* A picture with a code of some other text, or an unreadable one, before
\* an OTP code has been scanned: only the OTP text came back.
C10_Witness ==
  /\ op = "scan_image" /\ ret.ok
  /\ Len(fs[arg].barcodes) = 2
  /\ \/ ~fs[arg].barcodes[1].valid
     \/ ~StartsWith(fs[arg].barcodes[1].text, SubSeq(MigrationScheme, 1, 7))
  /\ ret.val = <<fs[arg].barcodes[2].text>>

\* The (issuer, name) pairs of the records of the codes.
KeysOf(codes) ==
  UNION {{<<codes[i].recs[j].issuer, codes[i].recs[j].name>> :
            j \in 1..Len(codes[i].recs)} : i \in 1..Len(codes)}

\* C11: extract_accounts scans a file as one image, a directory through the
\* directory scan, and raises FileNotFoundError, returning nothing, for a
\* path that is neither, whatever the directory holds.
C11_PathKindDecides ==
  op = "extract_accounts" =>
    IF arg \notin DOMAIN fs /\ arg # DirPath
    THEN ret = Raise("FileNotFoundError")
    ELSE /\ ret.err # "FileNotFoundError"
         /\ ~AllOpen(fs, arg) => ret = Raise("UnidentifiedImageError")
         /\ ret.ok => Len(ret.val) = Cardinality(KeysOf(ScannedCodes(fs, arg)))
         /\ (arg \in DOMAIN fs /\ fs[arg].kind = "file" /\ fs[arg].image /\ ret.ok)
              => Len(ret.val) = Cardinality(KeysOf(OtpCodes(fs, arg)))

\* extract_accounts was called on a path that does not exist, next to
\* pictures that hold accounts, and raised.
C11_Witness ==
  /\ op = "extract_accounts" /\ arg = MissingPath
  /\ ret = Raise("FileNotFoundError")
  /\ OtpCodes(fs, NameLower) # <<>>

\* ------------------------------------------------------------------------
\* Properties of the decoder: the label and the secret
\* ------------------------------------------------------------------------

\* The label before its first colon, or nothing when it has no colon.
LabelPrefix(label) ==
  LET k == FindFrom(label, {Ord(":")}, 1)
  IN  IF k > Len(label) THEN <<>> ELSE SubSeq(label, 1, k - 1)

\* The label after its first colon, or all of it when it has no colon.
LabelName(label) ==
  LET k == FindFrom(label, {Ord(":")}, 1)
  IN  IF k > Len(label) THEN label ELSE SubSeq(label, k + 1, Len(label))

\* C13: decode_uri of a standards-based URI with a secret returns one
\* account whose name is the label after its first colon (the whole label
\* when it has none) and whose issuer is the issuer parameter when present,
\* else the label before its first colon, else empty.
C13_LabelSplitsOnFirstColon ==
  (given.form = "standard_uri" /\ given.std.secret # <<>> /\ op = "decode_uri") =>
    /\ ret.ok
    /\ Len(ret.val) = 1
    /\ ret.val[1].name = LabelName(given.std.label)
    /\ ret.val[1].issuer = OrDefault(given.std.issuer, LabelPrefix(given.std.label))

\* C14: every account of a successful decode has a non-empty secret.
C14_SecretNeverEmpty ==
  (op \in {"decode_migration_payload", "decode_uri"} /\ ret.ok) =>
    \A i \in 1..Len(ret.val) : ret.val[i].totp_secret # <<>>

\* ------------------------------------------------------------------------
\* Properties of the URI builder
\* ------------------------------------------------------------------------

\* The query of a URI: what follows its first question mark.
QueryOf(uri) == SubSeq(uri, FindFrom(uri, {Ord("?")}, 1) + 1, Len(uri))

\* The (key, value) pairs a query spells, the values unquoted.
QueryPairs(query) ==
  LET parts == Split(query, Ord("&"))
      Eq(part) == FindFrom(part, {Ord("=")}, 1)
  IN  { <<SubSeq(parts[i], 1, Eq(parts[i]) - 1),
          unquote(SubSeq(parts[i], Eq(parts[i]) + 1, Len(parts[i])))>> :
          i \in 1..Len(parts) }

\* The values a URI carries for a key.
ValuesOf(uri, key) == {p[2] : p \in {q \in QueryPairs(QueryOf(uri)) : q[1] = key}}

\* C15: the URI built for an account starts with otpauth://<type>/ and
\* carries the account's secret, issuer, algorithm and digits as query
\* parameters; it carries counter=<counter> exactly when the type is hotp
\* and period=30 exactly when the type is totp.
C15_UriCarriesTheAccount ==
  op = "_build_otpauth_uri" =>
    /\ ret.ok
    /\ StartsWith(ret.val, Str(<<"o", "t", "p", "a", "u", "t", "h", ":", "/", "/">>)
                             \o arg.otp_type \o Str(<<"/">>))
    /\ ValuesOf(ret.val, Str(<<"s", "e", "c", "r", "e", "t">>)) = {arg.totp_secret}
    /\ ValuesOf(ret.val, Str(<<"i", "s", "s", "u", "e", "r">>)) = {arg.issuer}
    /\ ValuesOf(ret.val, Str(<<"a", "l", "g", "o", "r", "i", "t", "h", "m">>)) = {arg.algorithm}
    /\ ValuesOf(ret.val, Str(<<"d", "i", "g", "i", "t", "s">>)) = {IntStr(arg.digits)}
    /\ ValuesOf(ret.val, Str(<<"c", "o", "u", "n", "t", "e", "r">>))
         = (IF arg.otp_type = HotpText THEN {IntStr(arg.counter)} ELSE {})
    /\ ValuesOf(ret.val, Str(<<"p", "e", "r", "i", "o", "d">>))
         = (IF arg.otp_type = TotpText THEN {Str(<<"3", "0">>)} ELSE {})

\* The URI of an hotp account with counter 7 and an issuer that quote
\* escapes was built: it carries the counter and no period.
C15_Witness ==
  /\ op = "_build_otpauth_uri"
  /\ ret.ok
  /\ arg.otp_type = HotpText
  /\ arg.counter = 7
  /\ arg.issuer = Str(<<"A", ":", "B", " ", "&">>)
  /\ ValuesOf(ret.val, Str(<<"c", "o", "u", "n", "t", "e", "r">>)) = {Str(<<"7">>)}
  /\ ValuesOf(ret.val, Str(<<"p", "e", "r", "i", "o", "d">>)) = {}

\* ------------------------------------------------------------------------
\* Properties of code generation
\* ------------------------------------------------------------------------

\* The account of a secret with SHA1, six digits and the given type.
IsSha1Six(acct, secret, otp_type) ==
  /\ acct.totp_secret = secret
  /\ acct.algorithm = Sha1Text
  /\ acct.digits = 6
  /\ acct.otp_type = otp_type

\* The codes of RFC 6238 (time 59 and 1111111109) and RFC 4226 (counter 0
\* and 1) are what _generate_code returned for the account of the secret.
RfcVectors(secret) ==
  op = "_generate_code" =>
    /\ (IsSha1Six(arg, secret, TotpText) /\ now = 59)
         => ret = Ok(Str(<<"2", "8", "7", "0", "8", "2">>))
    /\ (IsSha1Six(arg, secret, TotpText) /\ now = 1111111109)
         => ret = Ok(Str(<<"0", "8", "1", "8", "0", "4">>))
    /\ (IsSha1Six(arg, secret, HotpText) /\ arg.counter = 0)
         => ret = Ok(Str(<<"7", "5", "5", "2", "2", "4">>))
    /\ (IsSha1Six(arg, secret, HotpText) /\ arg.counter = 1)
         => ret = Ok(Str(<<"2", "8", "7", "0", "8", "2">>))

\* C16, as stated: for the account with secret JBSWY3DPEHPK3PXP, SHA1 and 6
\* digits, the TOTP code at time 59 is 287082 and at time 1111111109 is
\* 081804, and the HOTP code for counter 0 is 755224 and for counter 1 is
\* 287082.
C16_VectorsOfJBSWY == RfcVectors(HelloSecret)

\* C16, amended: these four codes are the codes of the account with secret
\* GEZDGNBVGY3TQOJQGEZDGNBVGY3TQOJQ (the bytes 12345678901234567890 of the
\* RFCs), SHA1 and 6 digits.
C16_VectorsOfRfcSecret == RfcVectors(RfcSecret)

\* The TOTP code of the RFC secret at time 1111111109 was generated.
C16_Witness ==
  /\ op = "_generate_code"
  /\ IsSha1Six(arg, RfcSecret, TotpText)
  /\ now = 1111111109
  /\ ret = Ok(Str(<<"0", "8", "1", "8", "0", "4">>))

\* A text of exactly the given number of decimal digits.
IsCode(t, digits) ==
  Len(t) = digits /\ \A i \in 1..Len(t) : t[i] \in Ord("0")..Ord("9")

\* C12: for every account, whatever its algorithm, secret, digits, type and
\* counter, _generate_code returns a text, the code of the account's digits
\* or the placeholder "------", and raises nothing.
C12_GenerationNeverRaises ==
  op = "_generate_code" =>
    /\ ret.ok
    /\ ret.val = Placeholder \/ IsCode(ret.val, arg.digits)

\* A secret that is no base32 text was given, and the placeholder came back.
C12_Witness ==
  /\ op = "_generate_code"
  /\ ~byte_secret(arg.totp_secret).ok
  /\ arg.algorithm = Sha1Text
  /\ ret = Ok(Placeholder)

\* The account as an HOTP account with the given counter.
AsHotp(acct, counter) == [acct EXCEPT !.otp_type = HotpText, !.counter = counter]

\* C19: the TOTP code generated at time t is the HOTP code of the same
\* secret, algorithm and digits for counter floor(t / 30), hence the same at
\* every time of one 30-second window; the code of an HOTP account is that
\* of its stored counter at every time.
C19_TotpIsHotpOfWindow ==
  op = "_generate_code" =>
    /\ arg.otp_type = TotpText =>
         /\ ret = _generate_code(AsHotp(arg, now \div 30), 0)
         /\ \A t \in Times : t \div 30 = now \div 30 => _generate_code(arg, t) = ret
    /\ arg.otp_type = HotpText =>
         \A t \in Times : _generate_code(arg, t) = ret

\* A TOTP code was generated at time 59, in the window after that of time
\* 29, and it is not the code of time 29.
C19_Witness ==
  /\ op = "_generate_code"
  /\ arg.otp_type = TotpText
  /\ now = 59
  /\ ret.val # Placeholder
  /\ ret = _generate_code(arg, 30)
  /\ ret # _generate_code(arg, 29)

\* ------------------------------------------------------------------------
\* Properties of the app
\* ------------------------------------------------------------------------

\* The row of the account's key holds the text as its code.
ShowsCode(rows, acct, code) ==
  \E i \in 1..Len(rows) : rows[i].key = RowKey(acct) /\ rows[i].code = code

\* C17: after every refresh tick the code cell of every account of the list
\* holds the code generated for it in that tick, the placeholder when its
\* generation failed, whatever happened to the accounts before it.
C17_EveryCodeCellRewritten ==
  op = "_refresh_codes" =>
    \A i \in 1..Len(_accounts) :
      ShowsCode(table, _accounts[i], _generate_code(_accounts[i], now).val)

\* C18: no step but a load that succeeds changes the account list: refresh
\* ticks, copies, exports and the clock leave every account, its counter
\* included, as it was loaded.
C18_OnlySuccessfulLoadReplaces ==
  [][_accounts' # _accounts => (op' = "_do_load" /\ notified' = "information")]_vars

\* C20: right after a refresh tick at time t the code shown for every TOTP
\* account is its code of the window floor(t / 30), that is its code for the
\* moving factor floor(t / 30) or the placeholder when it has none, wherever
\* the tick before fell.
C20_ShownCodeIsOfCurrentWindow ==
  op = "_refresh_codes" =>
    \A i \in 1..Len(_accounts) :
      _accounts[i].otp_type = TotpText =>
        ShowsCode(table, _accounts[i],
                  _generate_code(AsHotp(_accounts[i], now \div 30), 0).val)

\* C21: a load that decodes nothing, because both inputs are blank or
\* because decode_uri or extract_accounts raised, leaves the account list as
\* it was and ends in a notification, a warning or an error.
C21_FailedLoadKeepsAccounts ==
  [][(op' = "_do_load" /\ ~ret'.ok) =>
       (_accounts' = _accounts /\ notified' \in {"warning", "error"})]_vars

\* With three accounts loaded, a load whose decoding raised has ended in an
\* error notification and the three accounts are still there.
C21_Witness ==
  /\ op = "_do_load"
  /\ ~ret.ok /\ ret.err # "none"
  /\ notified = "error"
  /\ Len(_accounts) = 3

\* C22: whatever was loaded, the table holds one row per account of the
\* account list, in the order of the list, each with the issuer, the name
\* and the secret of its account.
C22_TableAgreesWithAccounts ==
  /\ Len(table) = Len(_accounts)
  /\ \A i \in 1..Len(table) :
       /\ table[i].issuer = _accounts[i].issuer
       /\ table[i].account = _accounts[i].name
       /\ table[i].secret = _accounts[i].totp_secret

\* The row displays the account: it shows its issuer, name and secret.
Displays(row, acct) ==
  /\ row.issuer = acct.issuer
  /\ row.account = acct.name
  /\ row.secret = acct.totp_secret

\* C23: two loaded accounts that differ in (issuer, name) have different
\* row keys, and after a refresh tick every row holds the code generated
\* for the account it displays.
C23_RowShowsCodeOfItsAccount ==
  /\ \A i, j \in 1..Len(_accounts) :
       <<_accounts[i].issuer, _accounts[i].name>> # <<_accounts[j].issuer, _accounts[j].name>>
         => RowKey(_accounts[i]) # RowKey(_accounts[j])
  /\ op = "_refresh_codes" =>
       \A r \in 1..Len(table), i \in 1..Len(_accounts) :
         Displays(table[r], _accounts[i])
           => table[r].code = _generate_code(_accounts[i], now).val

\* ------------------------------------------------------------------------
\* Properties of the exporter
\* ------------------------------------------------------------------------

\* C24: export_qr_codes returns one path per account, in account order;
\* accounts that differ in (issuer, name) get different paths; and when
\* all accounts differ so, as many files are written as there are accounts.
C24_OneQrFilePerAccount ==
  op = "export_qr_codes" =>
    /\ Len(ret.val) = Len(arg)
    /\ \A i \in 1..Len(arg) : ret.val[i] = QrFileName(arg[i])
    /\ \A i, j \in 1..Len(arg) :
         <<arg[i].issuer, arg[i].name>> # <<arg[j].issuer, arg[j].name>>
           => ret.val[i] # ret.val[j]
    /\ (\A i, j \in 1..Len(arg) :
          i # j => <<arg[i].issuer, arg[i].name>> # <<arg[j].issuer, arg[j].name>>)
         => Cardinality(DOMAIN written) = Len(arg)

\* C25: an export requested while no accounts are loaded or while the export
\* directory input is empty runs no exporter, writes no file, makes no
\* directory and notifies a warning; an exporter has run only with accounts
\* loaded and an export directory given.
C25_ExportNeedsAccountsAndDirectory ==
  op = "_do_export" =>
    /\ (_accounts = <<>> \/ export_dir = <<>>) =>
         /\ arg = <<>> /\ ret = NoResult
         /\ written = <<>>
         /\ made_dir = <<>>
         /\ notified = "warning"
    /\ (arg # <<>> \/ written # <<>> \/ made_dir # <<>>) =>
         (_accounts # <<>> /\ export_dir # <<>>)

\* With accounts loaded and the export directory input empty, an export was
\* requested and ended in a warning.
C25_Witness ==
  /\ op = "_do_export"
  /\ _accounts # <<>>
  /\ export_dir = <<>>
  /\ notified = "warning"

\* C26 as stated: a load with a non-empty URI input decodes the URI input
\* whatever the file input holds and whatever triggered it; the path of the
\* file input is scanned only when the URI input is empty and the file
\* input is not. (A load leaves both inputs as they are, so the state after
\* it tells what it was given.)
C26_NonEmptyUriIsUsed ==
  op = "_do_load" =>
    /\ \E trigger \in LoadTriggers : arg = <<trigger>>
    /\ IF uri_input # <<>>
       THEN ret = decode_uri(uri_input)
       ELSE IF file_input # <<>>
       THEN \E listing \in Listings(fs, Strip(file_input)) :
              ret = extract_accounts(fs, Strip(file_input), listing)
       ELSE ret = NoResult

\* C26: a load with a URI input that is not blank (not empty once stripped
\* of surrounding whitespace) decodes the URI input whatever the file input
\* holds and whatever triggered it; the path of the file input is scanned
\* only when the URI input is blank and the file input is not.
C26_NonBlankUriIsUsed ==
  op = "_do_load" =>
    /\ \E trigger \in LoadTriggers : arg = <<trigger>>
    /\ IF Strip(uri_input) # <<>>
       THEN ret = decode_uri(uri_input)
       ELSE IF Strip(file_input) # <<>>
       THEN \E listing \in Listings(fs, Strip(file_input)) :
              ret = extract_accounts(fs, Strip(file_input), listing)
       ELSE ret = NoResult

\* The Load button of the file row was pressed with the path of an image of
\* one account in the file input and a URI of three accounts in the URI
\* input, and the three accounts of the URI were decoded.
C26_Witness ==
  /\ op = "_do_load"
  /\ arg = <<"load-btn">>
  /\ file_input = NameLower
  /\ uri_input = UriThree
  /\ ret.ok /\ Len(ret.val) = 3
  /\ Len(_accounts) = 3
====
